---- MODULE Spec2Model ----
(***************************************************************************)
(* A model of the claude-voice assistant: the mode loops of VoiceInterface *)
(* (wake-word, conversation and single-question mode), the profile        *)
(* manager, the Claude CLI client with its session files, and the two     *)
(* cancel watchers that run beside one send_to_claude call.               *)
(*                                                                         *)
(* Spec        the main thread alone: modes, profile commands, dispatch.   *)
(* SpecCancel  one send_to_claude call with the ESC watcher, the voice     *)
(*             watcher and the external process running beside it.        *)
(***************************************************************************)
EXTENDS Integers, Sequences, FiniteSets, TLC

(***************************************************************************)
(* Strings.  Python's str operations, computed character by character.     *)
(***************************************************************************)
UpperChars == "ABCDEFGHIJKLMNOPQRSTUVWXYZ"
LowerChars == "abcdefghijklmnopqrstuvwxyz"
DigitChars == "0123456789"

CharAt(s, i) == SubSeq(s, i, i)

InChars(c, cs) == \E i \in 1..Len(cs) : CharAt(cs, i) = c

\* str.isspace for the characters str.strip() and \s remove
IsSpace(c) == c \in {" ", "\t", "\n", "\r"}

\* the regular expression class \w
IsWordChar(c) ==
    \/ InChars(c, UpperChars)
    \/ InChars(c, LowerChars)
    \/ InChars(c, DigitChars)
    \/ c = "_"

LowerChar(c) ==
    IF InChars(c, UpperChars)
    THEN CharAt(LowerChars, CHOOSE i \in 1..Len(UpperChars) : CharAt(UpperChars, i) = c)
    ELSE c

\* str.lower()
Lower(s) ==
    LET RECURSIVE go(_)
        go(i) == IF i > Len(s) THEN "" ELSE LowerChar(CharAt(s, i)) \o go(i + 1)
    IN go(1)

\* str.strip(): leading and trailing whitespace removed
Strip(s) ==
    LET idx == {i \in 1..Len(s) : ~IsSpace(CharAt(s, i))}
    IN IF idx = {} THEN ""
       ELSE SubSeq(s, CHOOSE i \in idx : \A j \in idx : i <= j,
                      CHOOSE i \in idx : \A j \in idx : j <= i)

\* str.strip('_')
StripUnderscore(s) ==
    LET idx == {i \in 1..Len(s) : CharAt(s, i) # "_"}
    IN IF idx = {} THEN ""
       ELSE SubSeq(s, CHOOSE i \in idx : \A j \in idx : i <= j,
                      CHOOSE i \in idx : \A j \in idx : j <= i)

\* sub in s
Contains(sub, s) ==
    \E i \in 1..(Len(s) - Len(sub) + 1) : SubSeq(s, i, i + Len(sub) - 1) = sub

\* re.sub(r'[^\w\s]', '', s)
RemovePunctuation(s) ==
    LET RECURSIVE go(_)
        go(i) == IF i > Len(s) THEN ""
                 ELSE LET c == CharAt(s, i)
                      IN (IF IsWordChar(c) \/ IsSpace(c) THEN c ELSE "") \o go(i + 1)
    IN go(1)

\* re.sub(r'[^\w\s-]', '', s)
RemoveNonNameChars(s) ==
    LET RECURSIVE go(_)
        go(i) == IF i > Len(s) THEN ""
                 ELSE LET c == CharAt(s, i)
                      IN (IF IsWordChar(c) \/ IsSpace(c) \/ c = "-" THEN c ELSE "")
                         \o go(i + 1)
    IN go(1)

\* re.sub(r'[-\s]+', '_', s): every maximal run of dashes and whitespace
\* becomes one underscore
CollapseSeparators(s) ==
    LET sep(i) == IsSpace(CharAt(s, i)) \/ CharAt(s, i) = "-"
        RECURSIVE go(_)
        go(i) == IF i > Len(s) THEN ""
                 ELSE IF sep(i)
                      THEN (IF i > 1 /\ sep(i - 1) THEN "" ELSE "_") \o go(i + 1)
                      ELSE CharAt(s, i) \o go(i + 1)
    IN go(1)

\* s.replace(a, b) for a single character a
ReplaceChar(s, a, b) ==
    LET RECURSIVE go(_)
        go(i) == IF i > Len(s) THEN ""
                 ELSE (IF CharAt(s, i) = a THEN b ELSE CharAt(s, i)) \o go(i + 1)
    IN go(1)

\* s.split(sep)[1].strip() for a text that contains sep: what lies between
\* the first occurrence of sep and the next one
AfterFirst(sep, s) ==
    LET occ(from) == {i \in from..(Len(s) - Len(sep) + 1) :
                          SubSeq(s, i, i + Len(sep) - 1) = sep}
        first == CHOOSE i \in occ(1) : \A j \in occ(1) : i <= j
        start == first + Len(sep)
        rest == occ(start)
        stop == IF rest = {} THEN Len(s)
                ELSE (CHOOSE i \in rest : \A j \in rest : i <= j) - 1
    IN Strip(SubSeq(s, start, stop))

\* Python's ordering of characters (code points) for the characters in use
AsciiChars == " !,-.0123456789?ABCDEFGHIJKLMNOPQRSTUVWXYZ_abcdefghijklmnopqrstuvwxyz"

Ord(c) == CHOOSE i \in 1..Len(AsciiChars) : CharAt(AsciiChars, i) = c

\* a < b for str
StrLess(a, b) ==
    \E i \in 1..(Len(a) + 1) :
        /\ SubSeq(a, 1, i - 1) = SubSeq(b, 1, i - 1)
        /\ \/ i = Len(a) + 1 /\ Len(b) > Len(a)
           \/ i <= Len(a) /\ i <= Len(b) /\ Ord(CharAt(a, i)) < Ord(CharAt(b, i))

(***************************************************************************)
(* Bounded inputs.                                                         *)
(***************************************************************************)
\* what a turn's listen() can return as text (transcribe never returns a
\* text of fewer than two characters)
Utterances ==
    {"Goodbye!", "what time is it", "Create profile", "list profiles",
     "load profile work", "load profile Home Lab", "reset context",
     "conversation mode"}

\* what the listens inside a profile command can return as text
Answers == {"Yes!"}

\* continuation ids the external process can put in a response
ResponseIds == {"sidB"}

\* contents a .session_id file can have when the program starts: an id
\* followed by a line break
StartIds == {"sidA\n"}

\* values uuid.uuid4() can produce
LocalIds == {"uuid1"}

\* profile directories that exist when the program starts
StartProfiles == {"work"}

\* what the external process can write before it exits: a non-zero exit, a
\* JSON object with or without a session_id, or text that is not JSON
Outputs ==
    {[kind |-> "fail", has_sid |-> FALSE, sid |-> "", result |-> "boom"],
     [kind |-> "raw", has_sid |-> FALSE, sid |-> "", result |-> " plain reply\n"]}
    \cup {[kind |-> "json", has_sid |-> TRUE, sid |-> i, result |-> r] :
              i \in ResponseIds, r \in {"", "It is noon."}}
    \cup {[kind |-> "json", has_sid |-> FALSE, sid |-> "", result |-> "It is noon."]}
    \cup {[kind |-> "json_list", has_sid |-> FALSE, sid |-> "", result |-> "[1, 2]"]}
    \cup {[kind |-> "json_nores", has_sid |-> TRUE, sid |-> i,
           result |-> "{\"session_id\": \"" \o i \o "\"}"] : i \in ResponseIds}

\* None, where the code only tests truthiness: "if not text", "if profile_name",
\* "if self.current_profile", "if response"
NoText == ""
NoProfile == ""
NoSession == ""

\* the state file when it does not exist
NoState == [exists |-> FALSE, last_profile |-> "", session_id |-> ""]

\* no command built, no output written
NoCmd == [args |-> <<>>, cwd |-> ""]
NoOut == [kind |-> "none", has_sid |-> FALSE, sid |-> "", result |-> ""]

\* max_inactive of the wake-word conversation session
MaxInactive == 3

VARIABLES
    \* the file system under the context directory
    dirs,               \* names of the directories directly under it
    claudeMd,           \* those of them that hold a CLAUDE.md
    sessionFile,        \* storage path -> content of its .session_id file
    stateFile,          \* the last-used-profile state file
    \* ProfileManager
    current_profile,
    reset_context_mode,
    session_id,
    \* ClaudeClient
    current_process,
    lock,               \* "free" or the thread holding ClaudeClient._lock
    procState,          \* the external process: none, running, exited, terminated
    procOut,            \* what the process wrote when it exited
    cmd,                \* the command of the dispatch in flight
    \* VoiceInterface
    cancel_requested,
    tts_engine,         \* whether create_tts_engine returned an engine
    mode,               \* args.mode: wake, chat, ask (call: one bare send_to_claude)
    pc,                 \* position of the main thread
    loop,               \* the mode loop the main thread is in
    convCaller,         \* who called conversation_mode: main or the wake session
    text,               \* the turn's utterance
    inactive_count,
    response,
    \* the cancel listener threads of send_to_claude
    kpc,                \* _listen_for_cancel (ESC watcher)
    vpc,                \* monitor_voice (voice watcher)
    \* observations
    cancelCalls,        \* invocations of ClaudeClient.cancel()
    stopCalls,          \* invocations of tts_engine.stop() by the watchers
    fired,              \* the watchers that saw their cancel trigger
    cancelDuringWait,   \* cancel() was invoked while communicate() was blocked
    known,              \* ids stored at start or carried by a response
    lastId,             \* storage path -> the id last stored at start or carried
                        \* by a response for it, dropped by a reset dispatch
    emptyRun,           \* consecutive turn listens without text in the session
    askListens,         \* single-question mode: listens for the question
    askDispatches,      \* single-question mode: external dispatches
    askReplies          \* single-question mode: replies spoken

fsVars == <<dirs, claudeMd, sessionFile, stateFile>>
pmVars == <<current_profile, reset_context_mode, session_id>>
ccVars == <<current_process, lock, procState, procOut, cmd>>
ifVars == <<cancel_requested, tts_engine>>
mainVars == <<mode, pc, loop, convCaller, text, inactive_count, response>>
watchVars == <<kpc, vpc, cancelCalls, stopCalls, fired, cancelDuringWait>>
idObs == <<known, lastId>>
askObs == <<askListens, askDispatches, askReplies>>

VARIABLES
    \* AudioRecorder
    vad_model,          \* whether the Silero model was loaded
    timeout,            \* the timeout argument of record (0: none given)
    rpc,                \* position of the recording, and of the second one
    rpcB,
    rec,                \* the locals of record_with_vad / record_with_amplitude
    recB,               \* the locals of a second recording of the same chunks
    trace,              \* the probabilities the stream has delivered
    quietRun            \* the chunks delivered since the last loud one

recVars == <<vad_model, timeout, rpc, rpcB, rec, recB, trace, quietRun>>

VARIABLES
    \* the terminal and the threads that watch it
    tty,                \* the mode of the terminal on stdin: cooked or raw
    mpc,                \* position of the main thread in speak / send_to_claude
    ops,                \* the speak and send_to_claude calls made so far
    ws,                 \* the watcher threads started so far
    is_speaking         \* tts_engine.is_speaking

termVars == <<tty, mpc, ops, ws, is_speaking>>

VARIABLES
    streams,            \* the input streams open on the audio device
    cal,                \* AudioConfig as the recorder sets it, the calibration
                        \* file, and a calibrate_noise_floor call
    coqui,              \* CoquiTTS: a speak call, its queue and its worker
    excl,               \* threads that call AudioPlayer.play_file and
                        \* ClaudeClient.send_query on one object
    lastCall            \* a call of a method made on its own: its name, its
                        \* arguments and locals, what it returned and what
                        \* the object held before

unitVars == <<cal, coqui, excl, lastCall>>

\* what the older parts of the model leave alone
otherVars == <<recVars, termVars, streams, unitVars>>

vars == <<fsVars, pmVars, ccVars, ifVars, mainVars, watchVars, idObs, emptyRun, askObs,
          otherVars>>

(***************************************************************************)
(* VoiceInterface: the tests made on an utterance.                         *)
(***************************************************************************)
GoodbyePhrases ==
    {"goodbye", "bye", "bye bye", "see you", "see you later",
     "talk to you later", "exit", "quit"}

GoodbyeKeepsPunctuation(t) == Strip(Lower(t)) \in GoodbyePhrases

_is_goodbye_command(t) == Strip(RemovePunctuation(Lower(t))) \in GoodbyePhrases

\* the phrases process_profile_commands looks for in text.lower()
IsCreateProfile(t) == Contains("create profile", Lower(t))
IsListProfile(t) == Contains("list profile", Lower(t))
IsLoadProfile(t) == Contains("load profile", Lower(t))
IsResetContext(t) == Contains("reset context", Lower(t))

IsProfileCommand(t) ==
    IsCreateProfile(t) \/ IsListProfile(t) \/ IsLoadProfile(t) \/ IsResetContext(t)

IsConversationModeRequest(t) == Contains("conversation mode", Strip(Lower(t)))

(***************************************************************************)
(* ProfileManager.                                                         *)
(***************************************************************************)
_sanitize_name(name) ==
    StripUnderscore(CollapseSeparators(RemoveNonNameChars(Lower(name))))

\* (context_dir / name).exists() and is_dir(); context_dir / "" is context_dir
DirExists(name, ds) == name = "" \/ name \in ds

\* Path.name of context_dir / name
DirName(name) == IF name = "" THEN ".context" ELSE name

\* the candidate names load_profile tries, in order
Strategies(n) ==
    << _sanitize_name(n),
       ReplaceChar(ReplaceChar(ReplaceChar(Lower(n), " ", "_"), ",", ""), ".", ""),
       ReplaceChar(ReplaceChar(ReplaceChar(Lower(n), " ", ""), ",", ""), ".", ""),
       ReplaceChar(ReplaceChar(ReplaceChar(Lower(n), " ", "-"), ",", ""), ".", ""),
       Lower(n) >>

\* list_profiles(): the non-hidden directories that hold a CLAUDE.md
list_profiles(ds, md) == {d \in ds : d \in md /\ SubSeq(d, 1, 1) # "."}

\* the profiles the substring fallback of load_profile accepts
FuzzyMatches(n, ds, md) ==
    {p \in list_profiles(ds, md) :
        Contains(_sanitize_name(n), p) \/ Contains(p, _sanitize_name(n))}

\* the directory load_profile resolves a spoken name to, or NoProfile
ResolveProfile(n, ds, md) ==
    LET hits == {i \in 1..Len(Strategies(n)) : DirExists(Strategies(n)[i], ds)}
        fuzzy == FuzzyMatches(n, ds, md)
    IN IF hits # {}
       THEN DirName(Strategies(n)[CHOOSE i \in hits : \A j \in hits : i <= j])
       ELSE IF fuzzy # {}
            THEN CHOOSE p \in fuzzy : \A q \in fuzzy : p = q \/ StrLess(p, q)
            ELSE NoProfile

\* _save_last_profile(): the state file's content
SavedState(profile, sid) ==
    [exists |-> TRUE, last_profile |-> profile, session_id |-> sid]

\* get_current_profile_path(), and the default context directory of send_query
StoragePath(profile) ==
    IF profile = NoProfile THEN ".context" ELSE ".context/" \o profile

\* a file written, a file removed
Put(f, k, v) == [x \in DOMAIN f \cup {k} |-> IF x = k THEN v ELSE f[x]]
Drop(f, k) == [x \in DOMAIN f \ {k} |-> f[x]]

\* what create_profile(name) leaves on disk: nothing new when the directory
\* exists, else the directory and its CLAUDE.md
DirsAfterCreate(name, ds) ==
    IF DirExists(_sanitize_name(name), ds) THEN ds ELSE ds \cup {_sanitize_name(name)}

\* load_profile's assignment to reset_context_mode when a profile is found
FlagAfterLoad(flag) == FALSE

\* load_profile(name) on directories ds, md: nothing changes when no profile
\* matches, else the profile becomes current, the reset flag is cleared and the
\* state file is saved
load_profile(name, ds, md) ==
    LET p == ResolveProfile(name, ds, md)
    IN IF p = NoProfile
       THEN UNCHANGED <<current_profile, reset_context_mode, session_id, stateFile>>
       ELSE /\ current_profile' = p
            /\ reset_context_mode' = FlagAfterLoad(reset_context_mode)
            /\ UNCHANGED session_id
            /\ stateFile' = SavedState(p, session_id)

\* reset_context(): a new local session (uuid4), the flag set, the state saved
reset_context ==
    \E u \in LocalIds :
        /\ session_id' = u
        /\ reset_context_mode' = TRUE
        /\ UNCHANGED current_profile
        /\ stateFile' = SavedState(current_profile, u)

(***************************************************************************)
(* ClaudeClient.send_query, as pure functions of what it reads.            *)
(***************************************************************************)
\* a send_query that leaves the session file in place on a reset
FilesAfterResetKeepsFile(files, path, reset) == files

\* the session files after the "if reset_context ... unlink()" of send_query
FilesAfterReset(files, path, reset) ==
    IF reset /\ path \in DOMAIN files THEN Drop(files, path) ELSE files

\* session_file.read_text().strip()
ResumeId(content) == Strip(content)

\* the command line send_query builds
BuildCmd(files, path, reset, t) ==
    LET after == FilesAfterReset(files, path, reset)
        base == <<"claude", "--print", "--output-format", "json">>
    IN [args |-> (IF path \in DOMAIN after /\ ~reset
                  THEN base \o <<"--resume", ResumeId(after[path])>>
                  ELSE base) \o <<t>>,
        cwd |-> path]

\* whether a command asks for resumption, and with which id
HasResume(c) == \E i \in 1..Len(c.args) - 2 : c.args[i] = "--resume"
ResumeOf(c) == c.args[(CHOOSE i \in 1..Len(c.args) - 2 : c.args[i] = "--resume") + 1]

\* send_query: the output parsed as a JSON object that has a "session_id".
StoresId(out) == out.kind \in {"json", "json_nores"} /\ out.has_sid

\* a send_query that never writes the response's session_id
FilesAfterOutputKeepsOld(files, path, out) == files

\* a send_query that removes the session file when the output carries no
\* session_id
FilesAfterOutputForgets(files, path, out) ==
    IF StoresId(out) THEN Put(files, path, out.sid)
    ELSE IF path \in DOMAIN files THEN Drop(files, path) ELSE files

\* a send_query that stores a uuid of its own when the response has no
\* session_id
FilesAfterOutputInventsId(files, path, out) ==
    IF StoresId(out)
    THEN [x \in DOMAIN files \cup {path} |-> IF x = path THEN out.sid ELSE files[x]]
    ELSE [x \in DOMAIN files \cup {path} |-> IF x = path THEN "uuid1" ELSE files[x]]

\* the session files after the output of a finished process was handled
FilesAfterOutput(files, path, out) ==
    IF StoresId(out) THEN Put(files, path, out.sid) ELSE files

ReplyOfNoPrefix(out) == Strip(out.result)

\* send_query: the text returned for the output of an ended process. A
\* non-zero return code gives "Error: " and the stripped stderr, or "Unknown
\* error" for an empty stderr; a JSON object gives its stripped "result", ""
\* when it has none; text that is no JSON is returned stripped; JSON that is
\* no object fails in .get(), and "except Exception" returns the message.
ReplyOf(out) ==
    CASE out.kind = "json" -> Strip(out.result)
      [] out.kind = "json_nores" -> ""
      [] out.kind = "raw" -> Strip(out.result)
      [] out.kind = "json_list" -> "Error: 'list' object has no attribute 'get'"
      [] OTHER -> "Error: " \o (IF out.result = "" THEN "Unknown error"
                                ELSE Strip(out.result))

\* a send_to_claude that leaves the reset flag as it is
FlagAfterDispatchKeeps(flag) == flag

\* the reset flag after send_to_claude's "Reset the reset flag after use"
FlagAfterDispatch(flag) == IF flag THEN FALSE ELSE flag

(***************************************************************************)
(* The wake-word conversation session's inactivity counter.                *)
(***************************************************************************)
\* a session loop that compares with > instead of >=
InactiveTooLongOffByOne(count) == count > MaxInactive

NextInactive(count) == count + 1
InactiveTooLong(count) == count >= MaxInactive

(***************************************************************************)
(* The main thread.  text, response and cmd are cleared where the code's   *)
(* locals go out of use.                                                   *)
(***************************************************************************)
Heard == Utterances \cup {NoText}
HeardInCommand == Answers \cup {NoText}

\* a goodbye test that does not lower-case the utterance
GoodbyeTableCaseSensitive ==
    [t \in Heard |-> Strip(RemovePunctuation(t)) \in GoodbyePhrases]

\* a process_profile_commands without its "reset context" arm
CommandTableNoReset ==
    [t \in Heard |->
        CASE IsCreateProfile(t) -> "create"
          [] ~IsCreateProfile(t) /\ IsListProfile(t) -> "list"
          [] ~IsCreateProfile(t) /\ ~IsListProfile(t) /\ IsLoadProfile(t) -> "load"
          [] OTHER -> "none"]

\* the tests on the turn's utterance, tabulated over what can be heard
GoodbyeTable == [t \in Heard |-> _is_goodbye_command(t)]
CommandTable ==
    [t \in Heard |->
        CASE IsCreateProfile(t) -> "create"
          [] ~IsCreateProfile(t) /\ IsListProfile(t) -> "list"
          [] ~IsCreateProfile(t) /\ ~IsListProfile(t) /\ IsLoadProfile(t) -> "load"
          [] ~IsCreateProfile(t) /\ ~IsListProfile(t) /\ ~IsLoadProfile(t)
                /\ IsResetContext(t) -> "reset"
          [] OTHER -> "none"]
ConversationModeTable == [t \in Heard |-> IsConversationModeRequest(t)]

\* a single_question_mode that asks again instead of returning
TurnOverAsksAgain ==
    /\ pc' = CASE loop = "wake" -> "ww_listen"
               [] loop = "conv" -> "cv_top"
               [] OTHER -> "sg_start"
    /\ text' = NoText

\* where the main thread goes when a turn is over: "continue" in the two
\* loops, "return" in single-question mode
TurnOver ==
    /\ pc' = CASE loop = "wake" -> "ww_listen"
               [] loop = "conv" -> "cv_top"
               [] OTHER -> "done"
    /\ text' = NoText

\* conversation_mode returns: to main, or into the wake session, which breaks
\* out to the wake-word wait
ConvReturn ==
    /\ pc' = IF convCaller = "wake" THEN "ww_top" ELSE "done"
    /\ loop' = "none"
    /\ text' = NoText

\* wake_word_mode: detect_wake_word() at the top of the outer loop; on a
\* detection the session starts with inactive_count = 0
WakeDetect ==
    /\ pc = "ww_top"
    /\ \E detected \in BOOLEAN :
          IF detected
          THEN /\ pc' = "ww_listen"
               /\ loop' = "wake"
               /\ inactive_count' = 0
               /\ emptyRun' = 0
          ELSE UNCHANGED <<pc, loop, inactive_count, emptyRun>>
    /\ UNCHANGED <<fsVars, pmVars, ccVars, ifVars, mode, convCaller, text, response,
                   watchVars, idObs, askObs>>
    /\ UNCHANGED otherVars

\* wake_word_mode: text = self.listen(timeout=30)
WakeListen ==
    /\ pc = "ww_listen"
    /\ \E t \in Heard :
          /\ text' = t
          /\ emptyRun' = IF t = NoText THEN emptyRun + 1 ELSE 0
    /\ pc' = "ww_turn"
    /\ UNCHANGED <<fsVars, pmVars, ccVars, ifVars, mode, loop, convCaller, inactive_count,
                   response, watchVars, idObs, askObs>>
    /\ UNCHANGED otherVars

\* wake_word_mode: the body of the session loop up to the profile commands
WakeTurn ==
    /\ pc = "ww_turn"
    /\ IF text = NoText
       THEN /\ inactive_count' = NextInactive(inactive_count)
            /\ IF InactiveTooLong(inactive_count')
               THEN pc' = "ww_top" /\ loop' = "none"
               ELSE pc' = "ww_listen" /\ UNCHANGED loop
            /\ UNCHANGED <<text, convCaller>>
       ELSE /\ inactive_count' = 0
            /\ IF GoodbyeTable[text]
               THEN /\ pc' = "ww_top"
                    /\ loop' = "none"
                    /\ text' = NoText
                    /\ UNCHANGED convCaller
               ELSE IF ConversationModeTable[text]
                    THEN /\ pc' = "cv_enter"
                         /\ convCaller' = "wake"
                         /\ text' = NoText
                         /\ UNCHANGED loop
                    ELSE /\ pc' = "ppc"
                         /\ UNCHANGED <<text, loop, convCaller>>
    /\ UNCHANGED <<fsVars, pmVars, ccVars, ifVars, mode, response, watchVars, idObs,
                   emptyRun, askObs>>
    /\ UNCHANGED otherVars

\* conversation_mode: the announcements before the loop
ConvEnter ==
    /\ pc = "cv_enter"
    /\ pc' = "cv_top"
    /\ loop' = "conv"
    /\ UNCHANGED <<fsVars, pmVars, ccVars, ifVars, mode, convCaller, text, inactive_count,
                   response, watchVars, idObs, emptyRun, askObs>>
    /\ UNCHANGED otherVars

\* conversation_mode: more than 120 s since the last activity
ConvTimeout ==
    /\ pc = "cv_top"
    /\ ConvReturn
    /\ UNCHANGED <<fsVars, pmVars, ccVars, ifVars, mode, convCaller, inactive_count,
                   response, watchVars, idObs, emptyRun, askObs>>
    /\ UNCHANGED otherVars

\* conversation_mode: text = self.listen(timeout=30)
ConvListen ==
    /\ pc = "cv_top"
    /\ \E t \in Heard : text' = t
    /\ pc' = "cv_turn"
    /\ UNCHANGED <<fsVars, pmVars, ccVars, ifVars, mode, loop, convCaller, inactive_count,
                   response, watchVars, idObs, emptyRun, askObs>>
    /\ UNCHANGED otherVars

\* conversation_mode: the body of the loop up to the profile commands
ConvTurn ==
    /\ pc = "cv_turn"
    /\ IF text = NoText
       THEN pc' = "cv_top" /\ UNCHANGED <<text, loop>>
       ELSE IF GoodbyeTable[text]
            THEN ConvReturn
            ELSE pc' = "ppc" /\ UNCHANGED <<text, loop>>
    /\ UNCHANGED <<fsVars, pmVars, ccVars, ifVars, mode, convCaller, inactive_count,
                   response, watchVars, idObs, emptyRun, askObs>>
    /\ UNCHANGED otherVars

\* single_question_mode: the prompt and text = self.listen()
SingleListen ==
    /\ pc = "sg_start"
    /\ \E t \in Heard : text' = t
    /\ pc' = "sg_turn"
    /\ loop' = "single"
    /\ askListens' = askListens + 1
    /\ UNCHANGED <<fsVars, pmVars, ccVars, ifVars, mode, convCaller, inactive_count,
                   response, watchVars, idObs, emptyRun, askDispatches, askReplies>>
    /\ UNCHANGED otherVars

\* single_question_mode: "I didn't catch that." and return, or go on
SingleTurn ==
    /\ pc = "sg_turn"
    /\ IF text = NoText
       THEN pc' = "done"
       ELSE pc' = "ppc"
    /\ UNCHANGED <<fsVars, pmVars, ccVars, ifVars, mode, loop, convCaller, text,
                   inactive_count, response, watchVars, idObs, emptyRun, askObs>>
    /\ UNCHANGED otherVars

\* process_profile_commands(text): the four phrases, tested in the code's
\* order; no phrase: the caller goes on to send_to_claude
ProfileCommand ==
    /\ pc = "ppc"
    /\ CASE CommandTable[text] = "create" ->
              /\ pc' = "ppc_name"
              /\ UNCHANGED <<text, pmVars, stateFile>>
         [] CommandTable[text] = "list" ->
              /\ TurnOver
              /\ UNCHANGED <<pmVars, stateFile>>
         [] CommandTable[text] = "load" ->
              /\ load_profile(AfterFirst("load profile", Lower(text)), dirs, claudeMd)
              /\ TurnOver
         [] CommandTable[text] = "reset" ->
              /\ reset_context
              /\ TurnOver
         [] OTHER ->
              /\ pc' = "stc_start"
              /\ UNCHANGED <<text, pmVars, stateFile>>
    /\ UNCHANGED <<dirs, claudeMd, sessionFile, ccVars, ifVars, mode, loop, convCaller,
                   inactive_count, response, watchVars, idObs, emptyRun, askObs>>
    /\ UNCHANGED otherVars

\* "create profile": profile_name = self.listen(), create_profile and, when
\* it was created, load_profile
CreateProfileName ==
    /\ pc = "ppc_name"
    /\ \E name \in HeardInCommand :
          IF name = NoText
          THEN TurnOver /\ UNCHANGED <<dirs, claudeMd, pmVars, stateFile>>
          ELSE IF DirExists(_sanitize_name(name), dirs)
               THEN TurnOver /\ UNCHANGED <<dirs, claudeMd, pmVars, stateFile>>
               ELSE /\ dirs' = DirsAfterCreate(name, dirs)
                    /\ claudeMd' = claudeMd \cup {_sanitize_name(name)}
                    /\ load_profile(name, dirs', claudeMd')
                    /\ pc' = "ppc_desc_q"
                    /\ UNCHANGED text
    /\ UNCHANGED <<sessionFile, ccVars, ifVars, mode, loop, convCaller, inactive_count,
                   response, watchVars, idObs, emptyRun, askObs>>
    /\ UNCHANGED otherVars

\* "create profile": the answer to "Would you like to add a description"
CreateProfileAsk ==
    /\ pc = "ppc_desc_q"
    /\ \E answer \in HeardInCommand :
          IF answer # NoText /\ Contains("yes", Lower(answer))
          THEN pc' = "ppc_desc" /\ UNCHANGED text
          ELSE TurnOver
    /\ UNCHANGED <<fsVars, pmVars, ccVars, ifVars, mode, loop, convCaller, inactive_count,
                   response, watchVars, idObs, emptyRun, askObs>>
    /\ UNCHANGED otherVars

\* "create profile": the description, appended to the profile's CLAUDE.md
CreateProfileDescribe ==
    /\ pc = "ppc_desc"
    /\ \E description \in HeardInCommand :
          claudeMd' = IF description # NoText /\ current_profile # NoProfile
                      THEN claudeMd \cup {current_profile}
                      ELSE claudeMd
    /\ TurnOver
    /\ UNCHANGED <<dirs, sessionFile, stateFile, pmVars, ccVars, ifVars, mode, loop,
                   convCaller, inactive_count, response, watchVars, idObs, emptyRun, askObs>>
    /\ UNCHANGED otherVars

(***************************************************************************)
(* send_to_claude and ClaudeClient.send_query.                             *)
(***************************************************************************)
\* send_to_claude: _start_cancel_listener()
StartCancelListener ==
    /\ pc = "stc_start"
    /\ cancel_requested' = FALSE
    /\ kpc' = "k_init"
    /\ pc' = "sq_prepare"
    /\ askDispatches' = IF mode = "ask" THEN askDispatches + 1 ELSE askDispatches
    /\ UNCHANGED <<fsVars, pmVars, ccVars, tts_engine, mode, loop, convCaller, text,
                   inactive_count, response, vpc, cancelCalls, stopCalls, fired,
                   cancelDuringWait, idObs, emptyRun, askListens, askReplies>>
    /\ UNCHANGED otherVars

\* send_query up to the try block: the session file of the active storage
\* path is removed on a reset, the command is built, the directories are made
SendQueryPrepare ==
    /\ pc = "sq_prepare"
    /\ LET path == StoragePath(current_profile)
       IN /\ sessionFile' = FilesAfterReset(sessionFile, path, reset_context_mode)
          /\ cmd' = BuildCmd(sessionFile, path, reset_context_mode, text)
          /\ lastId' = IF reset_context_mode /\ path \in DOMAIN lastId
                       THEN Drop(lastId, path) ELSE lastId
    /\ dirs' = IF current_profile # NoProfile THEN dirs \cup {current_profile} ELSE dirs
    /\ pc' = "sq_popen"
    /\ UNCHANGED <<claudeMd, stateFile, pmVars, current_process, lock, procState, procOut,
                   ifVars, mode, loop, convCaller, text, inactive_count, response,
                   watchVars, known, emptyRun, askObs>>
    /\ UNCHANGED otherVars

\* send_query: with self._lock, subprocess.Popen; Popen can raise, which
\* "except Exception" turns into an error text
SendQueryPopen ==
    /\ pc = "sq_popen"
    /\ lock = "free"
    /\ \E started \in BOOLEAN :
          IF started
          THEN /\ lock' = "main"
               /\ current_process' = "proc"
               /\ procState' = "running"
               /\ pc' = "sq_wait"
               /\ UNCHANGED response
          ELSE /\ response' = "Error: cannot start"
               /\ pc' = "sq_finally"
               /\ UNCHANGED <<lock, current_process, procState>>
    /\ UNCHANGED <<fsVars, pmVars, procOut, cmd, ifVars, mode, loop, convCaller, text,
                   inactive_count, watchVars, idObs, emptyRun, askObs>>
    /\ UNCHANGED otherVars

\* the external process writes its output and exits
ProcessExit ==
    /\ procState = "running"
    /\ procState' = "exited"
    /\ \E out \in Outputs : procOut' = out
    /\ UNCHANGED <<fsVars, pmVars, current_process, lock, cmd, ifVars, mainVars,
                   watchVars, idObs, emptyRun, askObs>>
    /\ UNCHANGED otherVars

\* send_query: communicate() returns once the process has ended; the output
\* is handled and the lock released; a terminated process has a non-zero
\* return code
SendQueryCommunicate ==
    /\ pc = "sq_wait"
    /\ procState \in {"exited", "terminated"}
    /\ LET out == IF procState = "exited" THEN procOut
                  ELSE [kind |-> "fail", has_sid |-> FALSE, sid |-> "", result |-> ""]
       IN /\ sessionFile' = FilesAfterOutput(sessionFile, cmd.cwd, out)
          /\ response' = ReplyOf(out)
          /\ known' = IF StoresId(out) THEN known \cup {out.sid}
                      ELSE known
          /\ lastId' = IF StoresId(out)
                       THEN Put(lastId, cmd.cwd, out.sid) ELSE lastId
    /\ procOut' = NoOut
    /\ lock' = "free"
    /\ pc' = "sq_finally"
    /\ UNCHANGED <<dirs, claudeMd, stateFile, pmVars, current_process, procState, cmd,
                   ifVars, mode, loop, convCaller, text, inactive_count, watchVars,
                   emptyRun, askObs>>
    /\ UNCHANGED otherVars

\* send_query: finally, with self._lock: self.current_process = None
SendQueryFinally ==
    /\ pc = "sq_finally"
    /\ lock = "free"
    /\ current_process' = "none"
    /\ pc' = "stc_clear"
    /\ UNCHANGED <<fsVars, pmVars, lock, procState, procOut, cmd, ifVars, mode, loop,
                   convCaller, text, inactive_count, response, watchVars, idObs,
                   emptyRun, askObs>>
    /\ UNCHANGED otherVars

\* send_to_claude: "Reset the reset flag after use"
ClearResetFlag ==
    /\ pc = "stc_clear"
    /\ reset_context_mode' = FlagAfterDispatch(reset_context_mode)
    /\ pc' = "stc_stop"
    /\ UNCHANGED <<fsVars, current_profile, session_id, ccVars, ifVars, mode, loop,
                   convCaller, text, inactive_count, response, watchVars, idObs,
                   emptyRun, askObs>>
    /\ UNCHANGED otherVars

\* send_to_claude: finally, _stop_cancel_listener(); the join gives up after
\* 0.5 s, so the main thread goes on whatever the watchers do
StopCancelListener ==
    /\ pc = "stc_stop"
    /\ cancel_requested' = TRUE
    /\ pc' = "stc_done"
    /\ UNCHANGED <<fsVars, pmVars, ccVars, tts_engine, mode, loop, convCaller, text,
                   inactive_count, response, watchVars, idObs, emptyRun, askObs>>
    /\ UNCHANGED otherVars

\* the caller of send_to_claude: "if response: ... self.speak(response)",
\* then the next turn
SpeakReply ==
    /\ pc = "stc_done"
    /\ mode # "call"
    /\ askReplies' = IF mode = "ask" /\ response # "" THEN askReplies + 1 ELSE askReplies
    /\ response' = ""
    /\ cmd' = NoCmd
    /\ TurnOver
    /\ UNCHANGED <<fsVars, pmVars, current_process, lock, procState, procOut, ifVars,
                   mode, loop, convCaller, inactive_count, watchVars, idObs, emptyRun,
                   askListens, askDispatches>>
    /\ UNCHANGED otherVars

(***************************************************************************)
(* The cancel listener of send_to_claude: _listen_for_cancel (the ESC      *)
(* watcher) and its monitor_voice thread (the voice watcher).              *)
(***************************************************************************)
CancelWords == {"cancel", "stop", "shut up", "quiet", "silence", "nevermind"}

\* what quick_transcribe can return to the voice watcher (it lower-cases)
WatcherHeard == {NoText, "stop it", "hello there"}

IsCancelText(t) == \E w \in CancelWords : Contains(w, Lower(t))

\* ClaudeClient.cancel() once it holds the lock: a running process is
\* terminated, and current_process is None afterwards
CancelBody ==
    /\ lock = "free"
    /\ procState' = IF current_process # "none" /\ procState = "running"
                    THEN "terminated" ELSE procState
    /\ current_process' = "none"
    /\ UNCHANGED <<lock, procOut, cmd>>

\* a call of ClaudeClient.cancel() is made
CancelCalled ==
    /\ cancelCalls' = cancelCalls + 1
    /\ cancelDuringWait' = (cancelDuringWait \/ (pc = "sq_wait" /\ procState = "running"))

\* _listen_for_cancel starts: the voice thread is started, the terminal set raw
KeyInit ==
    /\ kpc = "k_init"
    /\ kpc' = "k_check"
    /\ vpc' = "v_check"
    /\ UNCHANGED <<fsVars, pmVars, ccVars, ifVars, mainVars, cancelCalls, stopCalls,
                   fired, cancelDuringWait, idObs, emptyRun, askObs>>
    /\ UNCHANGED otherVars

\* while not self.cancel_requested
KeyCheck ==
    /\ kpc = "k_check"
    /\ kpc' = IF cancel_requested THEN "k_finally" ELSE "k_select"
    /\ UNCHANGED <<fsVars, pmVars, ccVars, ifVars, mainVars, vpc, cancelCalls, stopCalls,
                   fired, cancelDuringWait, idObs, emptyRun, askObs>>
    /\ UNCHANGED otherVars

\* select on stdin for 0.1 s and the key read
KeySelect ==
    /\ kpc = "k_select"
    /\ \E key \in {"none", "esc"} :
          IF key = "esc"
          THEN kpc' = "k_set" /\ fired' = fired \cup {"esc"}
          ELSE kpc' = "k_check" /\ UNCHANGED fired
    /\ UNCHANGED <<fsVars, pmVars, ccVars, ifVars, mainVars, vpc, cancelCalls, stopCalls,
                   cancelDuringWait, idObs, emptyRun, askObs>>
    /\ UNCHANGED otherVars

\* self.cancel_requested = True
KeySet ==
    /\ kpc = "k_set"
    /\ cancel_requested' = TRUE
    /\ kpc' = "k_cancel"
    /\ UNCHANGED <<fsVars, pmVars, ccVars, tts_engine, mainVars, vpc, cancelCalls,
                   stopCalls, fired, cancelDuringWait, idObs, emptyRun, askObs>>
    /\ UNCHANGED otherVars

\* self.claude_client.cancel() is called
KeyCancelCall ==
    /\ kpc = "k_cancel"
    /\ CancelCalled
    /\ kpc' = "k_lock"
    /\ UNCHANGED <<fsVars, pmVars, ccVars, ifVars, mainVars, vpc, stopCalls, fired,
                   idObs, emptyRun, askObs>>
    /\ UNCHANGED otherVars

\* cancel() gets the lock and runs
KeyCancelBody ==
    /\ kpc = "k_lock"
    /\ CancelBody
    /\ kpc' = "k_stop"
    /\ UNCHANGED <<fsVars, pmVars, ifVars, mainVars, vpc, cancelCalls, stopCalls, fired,
                   cancelDuringWait, idObs, emptyRun, askObs>>
    /\ UNCHANGED otherVars

\* if self.tts_engine: self.tts_engine.stop()
KeyStop ==
    /\ kpc = "k_stop"
    /\ stopCalls' = IF tts_engine THEN stopCalls + 1 ELSE stopCalls
    /\ kpc' = "k_finally"
    /\ UNCHANGED <<fsVars, pmVars, ccVars, ifVars, mainVars, vpc, cancelCalls, fired,
                   cancelDuringWait, idObs, emptyRun, askObs>>
    /\ UNCHANGED otherVars

\* finally: the terminal restored, self.cancel_requested = True
KeyFinally ==
    /\ kpc = "k_finally"
    /\ cancel_requested' = TRUE
    /\ kpc' = "k_done"
    /\ UNCHANGED <<fsVars, pmVars, ccVars, tts_engine, mainVars, vpc, cancelCalls,
                   stopCalls, fired, cancelDuringWait, idObs, emptyRun, askObs>>
    /\ UNCHANGED otherVars

\* monitor_voice: while not self.cancel_requested
VoiceCheck ==
    /\ vpc = "v_check"
    /\ vpc' = IF cancel_requested THEN "v_done" ELSE "v_record"
    /\ UNCHANGED <<fsVars, pmVars, ccVars, ifVars, mainVars, kpc, cancelCalls, stopCalls,
                   fired, cancelDuringWait, idObs, emptyRun, askObs>>
    /\ UNCHANGED otherVars

\* monitor_voice: a 2 s recording, quick_transcribe and the cancel words
VoiceRecord ==
    /\ vpc = "v_record"
    /\ \E t \in WatcherHeard :
          IF t # NoText /\ IsCancelText(t)
          THEN vpc' = "v_set" /\ fired' = fired \cup {"voice"}
          ELSE vpc' = "v_check" /\ UNCHANGED fired
    /\ UNCHANGED <<fsVars, pmVars, ccVars, ifVars, mainVars, kpc, cancelCalls, stopCalls,
                   cancelDuringWait, idObs, emptyRun, askObs>>
    /\ UNCHANGED otherVars

VoiceSet ==
    /\ vpc = "v_set"
    /\ cancel_requested' = TRUE
    /\ vpc' = "v_cancel"
    /\ UNCHANGED <<fsVars, pmVars, ccVars, tts_engine, mainVars, kpc, cancelCalls,
                   stopCalls, fired, cancelDuringWait, idObs, emptyRun, askObs>>
    /\ UNCHANGED otherVars

VoiceCancelCall ==
    /\ vpc = "v_cancel"
    /\ CancelCalled
    /\ vpc' = "v_lock"
    /\ UNCHANGED <<fsVars, pmVars, ccVars, ifVars, mainVars, kpc, stopCalls, fired,
                   idObs, emptyRun, askObs>>
    /\ UNCHANGED otherVars

VoiceCancelBody ==
    /\ vpc = "v_lock"
    /\ CancelBody
    /\ vpc' = "v_stop"
    /\ UNCHANGED <<fsVars, pmVars, ifVars, mainVars, kpc, cancelCalls, stopCalls, fired,
                   cancelDuringWait, idObs, emptyRun, askObs>>
    /\ UNCHANGED otherVars

VoiceStop ==
    /\ vpc = "v_stop"
    /\ stopCalls' = IF tts_engine THEN stopCalls + 1 ELSE stopCalls
    /\ vpc' = "v_done"
    /\ UNCHANGED <<fsVars, pmVars, ccVars, ifVars, mainVars, kpc, cancelCalls, fired,
                   cancelDuringWait, idObs, emptyRun, askObs>>
    /\ UNCHANGED otherVars

(***************************************************************************)
(* AudioRecorder.  Probabilities are in hundredths, times in ticks of one  *)
(* chunk duration.  A chunk of record_with_vad is [n, prob]: its arrival   *)
(* number and the probability the model gives for it; a chunk of           *)
(* record_with_amplitude is its arrival number.                            *)
(***************************************************************************)
\* VADConfig
speech_start_threshold == 85
speech_continue_threshold == 50
consecutive_speech_needed == 2
\* VADConfig.pre_buffer_size, inactivity_timeout and AudioConfig.silence_duration
\* as record_with_vad measures it, scaled down
pre_buffer_size == 3
inactivity_timeout == 30
silence_ticks == 20
\* the "maybe speech" probability of the pre-buffer and of the trim
MaybeSpeech == 60
\* _trim_silence_with_vad: the shortest segment it trims, and what it adds to
\* the index of the last speech chunk
TrimMinFrames == 20
TrimKeep == 10

\* AudioConfig
chunk_size == 1024
sample_rate == 16000
silence_threshold == 1000
\* AudioConfig.silence_duration in seconds: the default 2.0, and a shorter one
SilenceDurations == {1, 2}
\* record_with_amplitude: the trim of the tail
AmpTrimOver == 20
AmpTrimTail == 10

\* the probabilities and amplitudes a chunk can have
Probs == {40, 55, 70, 90}
Amplitudes == {1000, 1500}
\* after this many chunks the stream of record_with_vad delivers silence only
MaxFree == 5
\* the chunks record_with_amplitude is followed for
MaxAmpChunks == 36
\* a timeout argument (0: None), and the ticks one stream.read takes
Timeouts == {0, 4}
Paces == {1, 3}

\* silence_start_time = None
NoTime == -1

Min(a, b) == IF a < b THEN a ELSE b

\* the return value None, and a returned list of frames
NoFrames == [kind |-> "none", frames |-> <<>>]
Frames(fs) == [kind |-> "frames", frames |-> fs]
\* a recording that has not returned
Pending == [kind |-> "pending", frames |-> <<>>]

\* a pre-buffer that, once full, drops the new chunk instead of the oldest
DequeAppendDropsNewest(q, x) ==
    IF Len(q) < pre_buffer_size THEN Append(q, x) ELSE q

\* collections.deque(maxlen=pre_buffer_size).append
DequeAppend(q, x) ==
    IF Len(q) < pre_buffer_size THEN Append(q, x)
    ELSE IF pre_buffer_size = 0 THEN q
    ELSE Append(SubSeq(q, 2, Len(q)), x)

\* the locals of record_with_vad before the loop
VadStart(pace) ==
    [frames |-> <<>>, pre_buffer |-> <<>>, recording_started |-> FALSE,
     consecutive_speech_count |-> 0, silence_start_time |-> NoTime,
     start_time |-> 0, last_activity_time |-> 0,
     now |-> 0, pace |-> pace, n |-> 0, brk |-> FALSE, result |-> Pending]

\* a timeout test that leaves the loop only once recording has started
VadTimedOutWhenStarted(st, to) ==
    to # 0 /\ st.now - st.start_time > to /\ st.recording_started

\* the two tests at the top of the loop of record_with_vad
VadTimedOut(st, to) == to # 0 /\ st.now - st.start_time > to /\ ~st.recording_started
VadInactive(st) == st.now - st.last_activity_time > inactivity_timeout

\* a speech test that keeps the start threshold once recording has started
IsSpeechOneThreshold(started, p) == p > speech_start_threshold

\* "Determine if this chunk contains speech"
IsSpeech(started, p) ==
    IF started THEN p > speech_continue_threshold ELSE p > speech_start_threshold

\* one chunk of the loop of record_with_vad: stream.read, the model's
\* probability p, and what the loop does with the chunk
VadChunk(st, p) ==
    LET t == st.now + st.pace
        data == [n |-> st.n + 1, prob |-> p]
        is_speech == IsSpeech(st.recording_started, p)
        pre1 == IF ~st.recording_started /\ p > MaybeSpeech
                THEN DequeAppend(st.pre_buffer, data) ELSE st.pre_buffer
        count1 == IF is_speech THEN st.consecutive_speech_count + 1 ELSE 0
        starts == is_speech /\ ~st.recording_started
                     /\ count1 >= consecutive_speech_needed
        started1 == st.recording_started \/ starts
        frames1 == IF is_speech
                   THEN (IF starts THEN st.frames \o pre1 ELSE st.frames)
                           \o (IF started1 THEN <<data>> ELSE <<>>)
                   ELSE IF st.recording_started THEN Append(st.frames, data)
                        ELSE st.frames
        silence1 == IF is_speech
                    THEN (IF started1 THEN NoTime ELSE st.silence_start_time)
                    ELSE IF st.recording_started /\ st.silence_start_time = NoTime
                         THEN t ELSE st.silence_start_time
        done == /\ ~is_speech
                /\ st.recording_started
                /\ st.silence_start_time # NoTime
                /\ t - st.silence_start_time > silence_ticks
    IN [st EXCEPT !.frames = frames1,
                  !.pre_buffer = IF starts THEN <<>> ELSE pre1,
                  !.recording_started = started1,
                  !.consecutive_speech_count = count1,
                  !.silence_start_time = silence1,
                  !.last_activity_time = IF is_speech THEN t ELSE @,
                  !.now = t,
                  !.n = st.n + 1,
                  !.brk = done]

\* _trim_silence_with_vad
_trim_silence_with_vad(frames) ==
    IF Len(frames) < TrimMinFrames THEN frames
    ELSE LET speech == {i \in 1..Len(frames) : frames[i].prob > MaybeSpeech}
             last_speech_index ==
                 IF speech = {} THEN Len(frames) - 1
                 ELSE (CHOOSE i \in speech : \A j \in speech : j <= i) - 1
             trim_index == Min(last_speech_index + TrimKeep, Len(frames))
         IN SubSeq(frames, 1, trim_index)

\* a return that skips the trim
VadResultUntrimmed(st) ==
    IF st.frames = <<>> \/ ~st.recording_started THEN NoFrames
    ELSE Frames(st.frames)

\* what record_with_vad returns after the loop
VadResult(st) ==
    IF st.frames = <<>> \/ ~st.recording_started THEN NoFrames
    ELSE Frames(_trim_silence_with_vad(st.frames))

\* the locals of record_with_amplitude before the loop
AmpStart(pace, duration) ==
    [frames |-> <<>>, silent_chunks |-> 0, recording_started |-> FALSE,
     start_time |-> 0, silence_duration |-> duration,
     now |-> 0, pace |-> pace, n |-> 0, brk |-> FALSE, result |-> Pending]

\* the test at the top of the loop of record_with_amplitude
AmpTimedOut(st, to) == to # 0 /\ st.now - st.start_time > to /\ ~st.recording_started

\* a silence test that is met one chunk early
SilenceTooLongOneEarly(silent, duration) ==
    (silent + 1) * chunk_size > duration * sample_rate

\* silence_time > silence_duration, with silence_time = silent_chunks *
\* chunk_size / sample_rate
SilenceTooLong(silent, duration) == silent * chunk_size > duration * sample_rate

\* one chunk of the loop of record_with_amplitude
AmpChunk(st, amplitude) ==
    LET data == st.n + 1
        loud == amplitude > silence_threshold
        silent1 == IF loud THEN 0
                   ELSE IF st.recording_started THEN st.silent_chunks + 1
                   ELSE st.silent_chunks
    IN [st EXCEPT !.frames = IF loud \/ st.recording_started THEN Append(@, data) ELSE @,
                  !.recording_started = @ \/ loud,
                  !.silent_chunks = silent1,
                  !.now = st.now + st.pace,
                  !.n = st.n + 1,
                  !.brk = ~loud /\ st.recording_started /\ SilenceTooLong(silent1, st.silence_duration)]

\* a trim that is applied to every segment of more than 10 frames
AmpTrimAlways(frames) ==
    IF Len(frames) > AmpTrimTail THEN SubSeq(frames, 1, Len(frames) - AmpTrimTail)
    ELSE frames

\* frames[:-10] when there are more than 20 frames
AmpTrim(frames) ==
    IF Len(frames) > AmpTrimOver THEN SubSeq(frames, 1, Len(frames) - AmpTrimTail)
    ELSE frames

\* what record_with_amplitude returns after the loop
AmpResult(st) == IF st.frames = <<>> THEN NoFrames ELSE Frames(AmpTrim(st.frames))

\* no speak or send_to_claude call has been made: the terminal is as the
\* shell left it
TerminalIdle ==
    /\ tty = "cooked"
    /\ mpc = "op_idle"
    /\ ops = 0
    /\ ws = <<>>
    /\ is_speaking = FALSE

\* the end signal speak puts into the queue (None), and the audio file of
\* the idx-th sentence of a speak call
EndSignal == [call |-> 0, idx |-> 0]
Segment(call, idx) == [call |-> call, idx |-> idx]

\* CoquiTTS after __init__: no speak call made, an empty queue, no playback
\* thread, no stop() under way. stopped notes that stop() was called since
\* the latest speak call began, ret what the latest speak call returned.
CoquiIdle ==
    [pc |-> "idle", call |-> 0, left |-> 0, idx |-> 0, is_speaking |-> FALSE,
     cancel_requested |-> FALSE, queue |-> <<>>, wpc |-> "none", item |-> EndSignal,
     spc |-> "idle", played |-> <<>>, stopped |-> FALSE, ret |-> "none"]

\* no stream is open, nothing is being calibrated, spoken or played
NumCallers == 2

Callers == 1..NumCallers

\* AudioPlayer.__init__ and ClaudeClient.__init__: both locks free, nothing
\* playing, no process; every calling thread is outside the two methods.
\* sounding and procs record the playbacks and the external processes that
\* are physically running; met and played record, per call of play_file,
\* whether a playback was running when the call tested is_playing and
\* whether the call itself started one.
ExclIdle ==
    [plock |-> 0, is_playing |-> FALSE, cancel_requested |-> FALSE,
     ppc |-> [t \in Callers |-> "idle"], pret |-> [t \in Callers |-> "none"],
     met |-> [t \in Callers |-> FALSE], played |-> [t \in Callers |-> FALSE],
     sounding |-> {},
     clock |-> 0, current_process |-> 0,
     cpc |-> [t \in Callers |-> "idle"], procs |-> {}]

calibration_samples == 2

\* AudioConfig.noise_floor is None; also: there is no noise_calibration.json.
NoFloor == -1

NoResult == [amplitudes |-> <<>>, noise_floor |-> NoFloor, silence_threshold |-> 0]

\* The recorder of a first run with the default configuration: no stored
\* calibration, no noise floor, the default threshold, no operation running.
\* op names the running operation, opened tells whether its audio.open
\* succeeded, before holds the two values at its start, last and ref hold
\* the outcome of the latest calibration and of an earlier one.
CalIdle ==
    [pc |-> "idle", op |-> "none", opened |-> FALSE,
     noise_floor |-> NoFloor, silence_threshold |-> silence_threshold,
     file |-> NoFloor, amplitudes |-> <<>>,
     before |-> <<NoFloor, silence_threshold>>,
     last |-> NoResult, ref |-> NoResult]

NoCall == [op |-> "none"]

UnitsIdle ==
    /\ streams = 0
    /\ cal = CalIdle
    /\ coqui = CoquiIdle
    /\ excl = ExclIdle
    /\ lastCall = NoCall

\* no recording is being made
RecorderIdle ==
    /\ vad_model = FALSE
    /\ timeout = 0
    /\ rpc = "idle"
    /\ rpcB = "idle"
    /\ rec = VadStart(1)
    /\ recB = VadStart(1)
    /\ trace = <<>>
    /\ quietRun = 0

(***************************************************************************)
(* Specifications.                                                         *)
(***************************************************************************)
StartPaths == {StoragePath(NoProfile)} \cup {StoragePath(p) : p \in StartProfiles}

\* the session files that can exist at start
StartFiles == UNION {[ps -> StartIds] : ps \in SUBSET StartPaths}

Range(f) == {f[x] : x \in DOMAIN f}

\* what does not depend on the mode: the disk as ProfileManager.__init__ and
\* _load_last_profile find it, every component just constructed
InitCommon ==
    /\ dirs = StartProfiles
    /\ claudeMd = StartProfiles
    /\ sessionFile \in StartFiles
    /\ \/ /\ stateFile = NoState
          /\ current_profile = NoProfile
          /\ session_id = NoSession
       \/ \E p \in StartProfiles, u \in LocalIds :
             /\ stateFile = SavedState(p, u)
             /\ current_profile = p
             /\ session_id = u
    /\ reset_context_mode = FALSE
    /\ current_process = "none"
    /\ lock = "free"
    /\ procState = "none"
    /\ procOut = NoOut
    /\ cmd = NoCmd
    /\ cancel_requested = FALSE
    /\ loop = "none"
    /\ convCaller = "main"
    /\ inactive_count = 0
    /\ response = ""
    /\ kpc = "k_idle"
    /\ vpc = "v_idle"
    /\ cancelCalls = 0
    /\ stopCalls = 0
    /\ fired = {}
    /\ cancelDuringWait = FALSE
    /\ known = Range(sessionFile)
    /\ lastId = sessionFile
    /\ emptyRun = 0
    /\ askListens = 0
    /\ askDispatches = 0
    /\ askReplies = 0
    /\ RecorderIdle
    /\ TerminalIdle
    /\ UnitsIdle

\* claude_voice.main: the mode of the command line is run
Init ==
    /\ InitCommon
    /\ tts_engine = TRUE
    /\ mode \in {"wake", "chat", "ask"}
    /\ pc = CASE mode = "wake" -> "ww_top"
              [] mode = "chat" -> "cv_enter"
              [] OTHER -> "sg_start"
    /\ text = NoText

Next ==
    \/ WakeDetect
    \/ WakeListen
    \/ WakeTurn
    \/ ConvEnter
    \/ ConvTimeout
    \/ ConvListen
    \/ ConvTurn
    \/ SingleListen
    \/ SingleTurn
    \/ ProfileCommand
    \/ CreateProfileName
    \/ CreateProfileAsk
    \/ CreateProfileDescribe
    \/ StartCancelListener
    \/ SendQueryPrepare
    \/ SendQueryPopen
    \/ ProcessExit
    \/ SendQueryCommunicate
    \/ SendQueryFinally
    \/ ClearResetFlag
    \/ StopCancelListener
    \/ SpeakReply

Spec == Init /\ [][Next]_vars

\* one send_to_claude call, entered with a question, together with the
\* watcher threads it starts
InitCancel ==
    /\ InitCommon
    /\ tts_engine \in BOOLEAN
    /\ mode = "call"
    /\ pc = "stc_start"
    /\ text = "what time is it"

NextCancel ==
    \/ StartCancelListener
    \/ SendQueryPrepare
    \/ SendQueryPopen
    \/ ProcessExit
    \/ SendQueryCommunicate
    \/ SendQueryFinally
    \/ ClearResetFlag
    \/ StopCancelListener
    \/ KeyInit
    \/ KeyCheck
    \/ KeySelect
    \/ KeySet
    \/ KeyCancelCall
    \/ KeyCancelBody
    \/ KeyStop
    \/ KeyFinally
    \/ VoiceCheck
    \/ VoiceRecord
    \/ VoiceSet
    \/ VoiceCancelCall
    \/ VoiceCancelBody
    \/ VoiceStop

SpecCancel == InitCancel /\ [][NextCancel]_vars

(***************************************************************************)
(* One call of AudioRecorder.record_with_vad, and two recordings of the    *)
(* same chunks that differ in how long each stream.read takes.             *)
(***************************************************************************)
\* the assistant itself is at rest while a recording is looked at
AssistantIdle ==
    /\ dirs = {}
    /\ claudeMd = {}
    /\ sessionFile = <<>>
    /\ stateFile = NoState
    /\ current_profile = NoProfile
    /\ reset_context_mode = FALSE
    /\ session_id = NoSession
    /\ current_process = "none"
    /\ lock = "free"
    /\ procState = "none"
    /\ procOut = NoOut
    /\ cmd = NoCmd
    /\ cancel_requested = FALSE
    /\ tts_engine = TRUE
    /\ mode = "listen"
    /\ pc = "listen"
    /\ loop = "none"
    /\ convCaller = "main"
    /\ text = NoText
    /\ inactive_count = 0
    /\ response = ""
    /\ kpc = "k_idle"
    /\ vpc = "v_idle"
    /\ cancelCalls = 0
    /\ stopCalls = 0
    /\ fired = {}
    /\ cancelDuringWait = FALSE
    /\ known = {}
    /\ lastId = <<>>
    /\ emptyRun = 0
    /\ askListens = 0
    /\ askDispatches = 0
    /\ askReplies = 0

assistantVars ==
    <<fsVars, pmVars, ccVars, ifVars, mainVars, watchVars, idObs, emptyRun, askObs,
      unitVars>>

\* the probabilities the next chunk can have: anything at first, silence later
NextProbs(st) == IF st.n < MaxFree THEN Probs ELSE {p \in Probs : p <= speech_continue_threshold /\ p <= MaybeSpeech}

\* record_with_vad: without a model it is record_with_amplitude
RecordWithVad ==
    /\ rpc = "record"
    /\ rpc' = IF vad_model THEN "vad_loop" ELSE "amp_loop"
    /\ \E duration \in SilenceDurations :
          rec' = IF vad_model THEN VadStart(rec.pace) ELSE AmpStart(rec.pace, duration)
    /\ UNCHANGED <<assistantVars, termVars, streams, vad_model, timeout, rpcB, recB, trace, quietRun>>

\* record_with_vad: one turn of the loop
VadLoop ==
    /\ rpc = "vad_loop"
    /\ IF VadTimedOut(rec, timeout) \/ VadInactive(rec)
       THEN /\ rpc' = "vad_ret"
            /\ UNCHANGED <<rec, trace>>
       ELSE \E p \in NextProbs(rec) :
               /\ rec' = VadChunk(rec, p)
               /\ trace' = Append(trace, p)
               /\ rpc' = IF rec'.brk THEN "vad_ret" ELSE "vad_loop"
    /\ UNCHANGED <<assistantVars, termVars, streams, vad_model, timeout, rpcB, recB, quietRun>>

\* record_with_vad: after the loop
VadReturn ==
    /\ rpc = "vad_ret"
    /\ rec' = [rec EXCEPT !.result = VadResult(rec)]
    /\ rpc' = "done"
    /\ UNCHANGED <<assistantVars, termVars, streams, vad_model, timeout, rpcB, recB, trace, quietRun>>

\* record_with_amplitude: one turn of the loop
AmpLoop ==
    /\ rpc = "amp_loop"
    /\ IF AmpTimedOut(rec, timeout)
       THEN /\ rpc' = "amp_ret"
            /\ UNCHANGED <<rec, quietRun>>
       ELSE /\ rec.n < MaxAmpChunks
            /\ \E a \in Amplitudes :
                  /\ rec' = AmpChunk(rec, a)
                  /\ quietRun' = IF a > silence_threshold THEN 0 ELSE quietRun + 1
                  /\ rpc' = IF rec'.brk THEN "amp_ret" ELSE "amp_loop"
    /\ UNCHANGED <<assistantVars, termVars, streams, vad_model, timeout, rpcB, recB, trace>>

\* record_with_amplitude: after the loop
AmpReturn ==
    /\ rpc = "amp_ret"
    /\ rec' = [rec EXCEPT !.result = AmpResult(rec)]
    /\ rpc' = "done"
    /\ UNCHANGED <<assistantVars, termVars, streams, vad_model, timeout, rpcB, recB, trace, quietRun>>

\* either loop: except KeyboardInterrupt: return None
RecordInterrupt ==
    /\ rpc \in {"vad_loop", "amp_loop"}
    /\ rec' = [rec EXCEPT !.result = NoFrames]
    /\ rpc' = "interrupted"
    /\ UNCHANGED <<assistantVars, termVars, streams, vad_model, timeout, rpcB, recB, trace, quietRun>>

InitRecord ==
    /\ AssistantIdle
    /\ TerminalIdle
    /\ UnitsIdle
    /\ vad_model \in BOOLEAN
    /\ timeout \in Timeouts
    /\ rpc = "record"
    /\ \E pace \in Paces : rec = VadStart(pace)
    /\ rpcB = "idle"
    /\ recB = VadStart(1)
    /\ trace = <<>>
    /\ quietRun = 0

NextRecord ==
    \/ RecordWithVad
    \/ VadLoop
    \/ VadReturn
    \/ AmpLoop
    \/ AmpReturn
    \/ RecordInterrupt

SpecRecord == InitRecord /\ [][NextRecord]_vars

\* the loop turn of one of two recordings that are given the same chunk
PairTurn(st, at, p) ==
    IF at # "vad_loop" THEN st
    ELSE IF VadTimedOut(st, timeout) \/ VadInactive(st) THEN st
    ELSE VadChunk(st, p)

\* where a recording is after that turn
PairAt(st, at, after) ==
    IF at # "vad_loop" THEN at
    ELSE IF VadTimedOut(st, timeout) \/ VadInactive(st) THEN "vad_ret"
    ELSE IF after.brk THEN "vad_ret"
    ELSE "vad_loop"

\* both recordings make their next loop turn, on the same chunk
PairLoop ==
    /\ rpc = "vad_loop" \/ rpcB = "vad_loop"
    /\ \E p \in NextProbs(IF rpc = "vad_loop" THEN rec ELSE recB) :
          /\ rec' = PairTurn(rec, rpc, p)
          /\ recB' = PairTurn(recB, rpcB, p)
          /\ rpc' = PairAt(rec, rpc, rec')
          /\ rpcB' = PairAt(recB, rpcB, recB')
          /\ trace' = IF rec'.n > Len(trace) \/ recB'.n > Len(trace)
                      THEN Append(trace, p) ELSE trace
    /\ UNCHANGED <<assistantVars, termVars, streams, vad_model, timeout, quietRun>>

\* both recordings return
PairReturn ==
    /\ rpc = "vad_ret"
    /\ rpcB = "vad_ret"
    /\ rec' = [rec EXCEPT !.result = VadResult(rec)]
    /\ recB' = [recB EXCEPT !.result = VadResult(recB)]
    /\ rpc' = "done"
    /\ rpcB' = "done"
    /\ UNCHANGED <<assistantVars, termVars, streams, vad_model, timeout, trace, quietRun>>

InitPair ==
    /\ AssistantIdle
    /\ TerminalIdle
    /\ UnitsIdle
    /\ vad_model = TRUE
    /\ timeout \in Timeouts
    /\ rpc = "vad_loop"
    /\ rpcB = "vad_loop"
    /\ \E pace \in Paces : rec = VadStart(pace)
    /\ \E pace \in Paces : recB = VadStart(pace)
    /\ trace = <<>>
    /\ quietRun = 0

NextPair ==
    \/ PairLoop
    \/ PairReturn

SpecPair == InitPair /\ [][NextPair]_vars

(***************************************************************************)
(* _trim_silence_with_vad applied to the segments record_with_vad can hand  *)
(* it: at least one chunk above 0.6, the others below.                     *)
(***************************************************************************)
\* the longest segment looked at
MaxTrimLen == 24

\* segments of up to MaxTrimLen chunks with one or two chunks above 0.6
TrimInputs ==
    {[i \in 1..len |-> [n |-> i, prob |-> IF i \in {a, b} THEN 90 ELSE 40]] :
        <<len, a, b>> \in {t \in (1..MaxTrimLen) \X (1..MaxTrimLen) \X (1..MaxTrimLen) :
                              t[2] <= t[3] /\ t[3] <= t[1]}}

\* record_with_vad reaches its last line with such a segment in frames
InitTrim ==
    /\ AssistantIdle
    /\ TerminalIdle
    /\ UnitsIdle
    /\ vad_model = TRUE
    /\ timeout = 0
    /\ rpc = "vad_ret"
    /\ \E fs \in TrimInputs :
          rec = [VadStart(1) EXCEPT !.frames = fs, !.recording_started = TRUE,
                                    !.n = Len(fs), !.brk = TRUE]
    /\ rpcB = "idle"
    /\ recB = VadStart(1)
    /\ trace = <<>>
    /\ quietRun = 0

NextTrim == VadReturn

SpecTrim == InitTrim /\ [][NextTrim]_vars

(***************************************************************************)
(* The terminal: consecutive speak and send_to_claude calls of the main    *)
(* thread, and the watcher threads they start.  A watcher is               *)
(* [kind, op, pc, old_settings]: check_esc of speak ("esc"),               *)
(* _listen_for_cancel ("key") or monitor_voice ("voice"), the call that    *)
(* started it, its position, and the terminal mode it saved.               *)
(***************************************************************************)
\* the speak and send_to_claude calls followed
MaxOps == 3

Watcher(kind, op, at) == [kind |-> kind, op |-> op, pc |-> at, old_settings |-> "unset"]

Done == {"e_done", "k_done", "v_done"}

\* what these steps leave alone
restVars ==
    <<fsVars, pmVars, ccVars, tts_engine, mainVars, watchVars, idObs, emptyRun, askObs,
      recVars, unitVars>>

\* speak: an ESC already typed stops the engine and returns; else the flag
\* is cleared and check_esc is started
SpeakStart ==
    /\ mpc = "op_idle"
    /\ ops < MaxOps
    /\ ops' = ops + 1
    /\ \/ /\ mpc' = "op_idle"
          /\ UNCHANGED <<cancel_requested, ws>>
       \/ /\ cancel_requested' = FALSE
          /\ ws' = Append(ws, Watcher("esc", ops + 1, "e_save"))
          /\ mpc' = "sp_engine"
    /\ UNCHANGED <<restVars, streams, tty, is_speaking>>

\* tts_engine.speak: is_speaking = True
SpeakEngine ==
    /\ mpc = "sp_engine"
    /\ is_speaking' = TRUE
    /\ mpc' = "sp_play"
    /\ UNCHANGED <<restVars, streams, cancel_requested, tty, ops, ws>>

\* tts_engine.speak: the playback is over, finally: is_speaking = False
SpeakEnd ==
    /\ mpc = "sp_play"
    /\ is_speaking' = FALSE
    /\ mpc' = "op_idle"
    /\ UNCHANGED <<restVars, streams, cancel_requested, tty, ops, ws>>

\* send_to_claude: _start_cancel_listener
CallStart ==
    /\ mpc = "op_idle"
    /\ ops < MaxOps
    /\ ops' = ops + 1
    /\ cancel_requested' = FALSE
    /\ ws' = Append(ws, Watcher("key", ops + 1, "k_save"))
    /\ mpc' = "stc_call"
    /\ UNCHANGED <<restVars, streams, tty, is_speaking>>

\* send_to_claude: the call has returned or failed; _stop_cancel_listener
\* sets the flag
CallStop ==
    /\ mpc = "stc_call"
    /\ cancel_requested' = TRUE
    /\ mpc' = "stc_join"
    /\ UNCHANGED <<restVars, streams, tty, ops, ws, is_speaking>>

\* _stop_cancel_listener: join(timeout=0.5) returns, with the thread ended
\* or not
CallJoin ==
    /\ mpc = "stc_join"
    /\ mpc' = "op_idle"
    /\ UNCHANGED <<restVars, streams, cancel_requested, tty, ops, ws, is_speaking>>

\* check_esc: old_settings = termios.tcgetattr(sys.stdin)
EscSave ==
    \E i \in 1..Len(ws) :
       /\ ws[i].pc = "e_save"
       /\ ws' = [ws EXCEPT ![i].old_settings = tty, ![i].pc = "e_raw"]
       /\ UNCHANGED <<restVars, streams, cancel_requested, tty, mpc, ops, is_speaking>>

\* check_esc: tty.setraw
EscRaw ==
    \E i \in 1..Len(ws) :
       /\ ws[i].pc = "e_raw"
       /\ tty' = "raw"
       /\ ws' = [ws EXCEPT ![i].pc = "e_poll"]
       /\ UNCHANGED <<restVars, streams, cancel_requested, mpc, ops, is_speaking>>

\* check_esc: the loop test, and a turn of the loop in which ESC is read or
\* select / read / stop raises
EscPoll ==
    \E i \in 1..Len(ws) :
       /\ ws[i].pc = "e_poll"
       /\ IF ~is_speaking
          THEN /\ ws' = [ws EXCEPT ![i].pc = "e_restore"]
               /\ UNCHANGED is_speaking
          ELSE \/ /\ is_speaking' = FALSE
                  /\ ws' = [ws EXCEPT ![i].pc = "e_restore"]
               \/ /\ ws' = [ws EXCEPT ![i].pc = "e_fallback"]
                  /\ UNCHANGED is_speaking
       /\ UNCHANGED <<restVars, streams, cancel_requested, tty, mpc, ops>>

\* check_esc: termios.tcsetattr(sys.stdin, TCSADRAIN, old_settings)
EscRestore ==
    \E i \in 1..Len(ws) :
       /\ ws[i].pc = "e_restore"
       /\ tty' = ws[i].old_settings
       /\ ws' = [ws EXCEPT ![i].pc = "e_done"]
       /\ UNCHANGED <<restVars, streams, cancel_requested, mpc, ops, is_speaking>>

\* check_esc: the loop of the except branch, left when the engine is silent,
\* on ESC or on another exception
EscFallback ==
    \E i \in 1..Len(ws) :
       /\ ws[i].pc = "e_fallback"
       /\ ws' = [ws EXCEPT ![i].pc = "e_done"]
       /\ \/ ~is_speaking /\ UNCHANGED is_speaking
          \/ is_speaking /\ is_speaking' = FALSE
          \/ is_speaking /\ UNCHANGED is_speaking
       /\ UNCHANGED <<restVars, streams, cancel_requested, tty, mpc, ops>>

\* _listen_for_cancel: old_settings = termios.tcgetattr(sys.stdin), and the
\* voice thread is started
KeySave ==
    \E i \in 1..Len(ws) :
       /\ ws[i].pc = "k_save"
       /\ ws' = Append([ws EXCEPT ![i].old_settings = tty, ![i].pc = "k_raw"],
                       Watcher("voice", ws[i].op, "v_test"))
       /\ UNCHANGED <<restVars, streams, cancel_requested, tty, mpc, ops, is_speaking>>

\* _listen_for_cancel: tty.setraw
KeyRaw ==
    \E i \in 1..Len(ws) :
       /\ ws[i].pc = "k_raw"
       /\ tty' = "raw"
       /\ ws' = [ws EXCEPT ![i].pc = "k_poll"]
       /\ UNCHANGED <<restVars, streams, cancel_requested, mpc, ops, is_speaking>>

\* _listen_for_cancel: the loop test, and a turn of the loop in which ESC is
\* read (the flag is set before cancel() and stop()) or something raises
KeyPoll ==
    \E i \in 1..Len(ws) :
       /\ ws[i].pc = "k_poll"
       /\ ws' = [ws EXCEPT ![i].pc = "k_restore"]
       /\ \/ cancel_requested /\ UNCHANGED cancel_requested
          \/ ~cancel_requested /\ cancel_requested' = TRUE
          \/ ~cancel_requested /\ UNCHANGED cancel_requested
       /\ UNCHANGED <<restVars, streams, tty, mpc, ops, is_speaking>>

\* _listen_for_cancel: finally: tcsetattr(old_settings); cancel_requested = True
KeyRestore ==
    \E i \in 1..Len(ws) :
       /\ ws[i].pc = "k_restore"
       /\ tty' = ws[i].old_settings
       /\ cancel_requested' = TRUE
       /\ ws' = [ws EXCEPT ![i].pc = "k_done"]
       /\ UNCHANGED <<restVars, streams, mpc, ops, is_speaking>>

\* monitor_voice: while not self.cancel_requested; record_with_amplitude
\* opens its input stream
VoiceTest ==
    \E i \in 1..Len(ws) :
       /\ ws[i].pc = "v_test"
       /\ ws' = [ws EXCEPT ![i].pc = IF cancel_requested THEN "v_done" ELSE "v_listen"]
       /\ streams' = IF cancel_requested THEN streams ELSE streams + 1
       /\ UNCHANGED <<restVars, cancel_requested, tty, mpc, ops, is_speaking>>

\* monitor_voice: record_with_amplitude(timeout=2) closes its stream and
\* returns, then quick_transcribe; a cancel word sets the flag and returns,
\* anything else sleeps and loops
VoiceListen ==
    \E i \in 1..Len(ws) :
       /\ ws[i].pc = "v_listen"
       /\ streams' = streams - 1
       /\ \/ /\ cancel_requested' = TRUE
             /\ ws' = [ws EXCEPT ![i].pc = "v_done"]
          \/ /\ ws' = [ws EXCEPT ![i].pc = "v_test"]
             /\ UNCHANGED cancel_requested
       /\ UNCHANGED <<restVars, tty, mpc, ops, is_speaking>>

\* the main thread between two calls: listen or detect_wake_word opens an
\* input stream in record_with_vad / record_with_amplitude
ListenStart ==
    /\ mpc = "op_idle"
    /\ mpc' = "listening"
    /\ streams' = streams + 1
    /\ UNCHANGED <<restVars, cancel_requested, tty, ops, ws, is_speaking>>

\* the recording of the main thread ends: finally: stream.close()
ListenEnd ==
    /\ mpc = "listening"
    /\ mpc' = "op_idle"
    /\ streams' = streams - 1
    /\ UNCHANGED <<restVars, cancel_requested, tty, ops, ws, is_speaking>>

InitOps ==
    /\ AssistantIdle
    /\ RecorderIdle
    /\ TerminalIdle
    /\ UnitsIdle

NextOps ==
    \/ SpeakStart
    \/ SpeakEngine
    \/ SpeakEnd
    \/ CallStart
    \/ CallStop
    \/ CallJoin
    \/ ListenStart
    \/ ListenEnd
    \/ EscSave
    \/ EscRaw
    \/ EscPoll
    \/ EscRestore
    \/ EscFallback
    \/ KeySave
    \/ KeyRaw
    \/ KeyPoll
    \/ KeyRestore
    \/ VoiceTest
    \/ VoiceListen

SpecOps == InitOps /\ [][NextOps]_vars

(***************************************************************************)
(* CoquiTTS: speak calls of the main thread (the producer), the playback   *)
(* worker thread, and stop() calls of a watcher thread.                    *)
(***************************************************************************)
\* the speak calls followed, and the most sentences a text has
MaxSpeaks == 2
MaxSentences == 2

\* a queue that hands out the newest item first
QueuePutFront(q, x) == <<x>> \o q

\* queue.Queue.put
QueuePut(q, x) == Append(q, x)

coquiRest ==
    <<fsVars, pmVars, ccVars, ifVars, mainVars, watchVars, idObs, emptyRun, askObs,
      recVars, termVars, streams, cal, excl, lastCall>>

\* speak: the text has sentences; is_speaking = True, cancel_requested = False
CoquiSpeak ==
    /\ coqui.pc = "idle"
    /\ coqui.call < MaxSpeaks
    /\ \E k \in 1..MaxSentences :
          coqui' = [coqui EXCEPT !.pc = "clear", !.call = @ + 1, !.left = k, !.idx = 0,
                                 !.is_speaking = TRUE, !.cancel_requested = FALSE,
                                 !.stopped = FALSE, !.ret = "none"]
    /\ UNCHANGED coquiRest

\* speak: "Clear the queue": while not self._audio_queue.empty()
CoquiClearTest ==
    /\ coqui.pc = "clear"
    /\ coqui' = [coqui EXCEPT !.pc = IF coqui.queue = <<>> THEN "thread" ELSE "clear_get"]
    /\ UNCHANGED coquiRest

\* speak: self._audio_queue.get(), which waits while the queue is empty
CoquiClearGet ==
    /\ coqui.pc = "clear_get"
    /\ coqui.queue # <<>>
    /\ coqui' = [coqui EXCEPT !.pc = "clear", !.queue = Tail(@)]
    /\ UNCHANGED coquiRest

\* speak: a playback thread is started unless one is alive
CoquiThread ==
    /\ coqui.pc = "thread"
    /\ coqui' = [coqui EXCEPT !.pc = "gen",
                              !.wpc = IF @ = "none" THEN "w_get" ELSE @]
    /\ UNCHANGED coquiRest

\* speak: the head of the loop over the sentences
CoquiNext ==
    /\ coqui.pc = "gen"
    /\ coqui' = [coqui EXCEPT !.pc = IF coqui.left = 0 \/ coqui.cancel_requested
                                      THEN "end" ELSE "put"]
    /\ UNCHANGED coquiRest

\* speak: _generate_audio and, if it gave a file, put
CoquiPut ==
    /\ coqui.pc = "put"
    /\ \E made \in BOOLEAN :
          coqui' = [coqui EXCEPT
                       !.pc = "gen", !.left = @ - 1, !.idx = @ + 1,
                       !.queue = IF made THEN QueuePut(@, Segment(coqui.call, coqui.idx + 1))
                                 ELSE @]
    /\ UNCHANGED coquiRest

\* speak: self._audio_queue.put(None)
CoquiEnd ==
    /\ coqui.pc = "end"
    /\ coqui' = [coqui EXCEPT !.pc = "join", !.queue = QueuePut(@, EndSignal)]
    /\ UNCHANGED coquiRest

\* speak: return not self.cancel_requested
SpeakReturns(cancelled) == IF cancelled THEN "False" ELSE "True"

\* speak: join(timeout=30) returns because the thread has ended; the
\* return value; finally: is_speaking = False
CoquiJoin ==
    /\ coqui.pc = "join"
    /\ coqui.wpc = "none"
    /\ coqui' = [coqui EXCEPT !.pc = "idle", !.is_speaking = FALSE,
                              !.ret = SpeakReturns(coqui.cancel_requested)]
    /\ UNCHANGED coquiRest

\* speak: join(timeout=30) returns because the 30 seconds have passed,
\* which they do while the thread waits for an item that does not come;
\* the return value; finally: is_speaking = False
CoquiJoinTimeout ==
    /\ coqui.pc = "join"
    /\ coqui.wpc \in {"w_get", "w_clean_get"}
    /\ coqui.queue = <<>>
    /\ coqui' = [coqui EXCEPT !.pc = "idle", !.is_speaking = FALSE,
                              !.ret = SpeakReturns(coqui.cancel_requested)]
    /\ UNCHANGED coquiRest

\* _playback_worker: self._audio_queue.get(timeout=1) gives an item
WorkerGet ==
    /\ coqui.wpc = "w_get"
    /\ coqui.queue # <<>>
    /\ coqui' = [coqui EXCEPT !.wpc = "w_got", !.item = Head(coqui.queue),
                              !.queue = Tail(@)]
    /\ UNCHANGED coquiRest

\* _playback_worker: the tests for the end signal and for a cancellation
WorkerGot ==
    /\ coqui.wpc = "w_got"
    /\ coqui' = IF coqui.item = EndSignal THEN [coqui EXCEPT !.wpc = "w_exit"]
                ELSE IF coqui.cancel_requested THEN [coqui EXCEPT !.wpc = "w_clean"]
                ELSE [coqui EXCEPT !.wpc = "w_start"]
    /\ UNCHANGED coquiRest

\* _playback_worker: play_file takes the player's lock and begins the
\* playback of the item; it does not look at the engine's cancel_requested
WorkerStart ==
    /\ coqui.wpc = "w_start"
    /\ coqui' = [coqui EXCEPT !.wpc = "w_play", !.played = Append(@, coqui.item)]
    /\ UNCHANGED coquiRest

\* _playback_worker: play_file returns, the file is removed
WorkerPlayed ==
    /\ coqui.wpc = "w_play"
    /\ coqui' = [coqui EXCEPT !.wpc = "w_get"]
    /\ UNCHANGED coquiRest

\* _playback_worker: "Clean up remaining files": while not empty()
WorkerCleanTest ==
    /\ coqui.wpc = "w_clean"
    /\ coqui' = [coqui EXCEPT !.wpc = IF coqui.queue = <<>> THEN "w_exit" ELSE "w_clean_get"]
    /\ UNCHANGED coquiRest

\* _playback_worker: self._audio_queue.get(), which waits while the queue
\* is empty
WorkerCleanGet ==
    /\ coqui.wpc = "w_clean_get"
    /\ coqui.queue # <<>>
    /\ coqui' = [coqui EXCEPT !.wpc = "w_clean", !.queue = Tail(@)]
    /\ UNCHANGED coquiRest

\* _playback_worker: the loop is left and the thread ends
WorkerExit ==
    /\ coqui.wpc = "w_exit"
    /\ coqui' = [coqui EXCEPT !.wpc = "none"]
    /\ UNCHANGED coquiRest

\* stop(): cancel_requested = True; audio_player.stop()
StopCall ==
    /\ coqui.spc = "idle"
    /\ coqui' = [coqui EXCEPT !.spc = "s_drain", !.cancel_requested = TRUE,
                              !.stopped = @ \/ coqui.pc # "idle"]
    /\ UNCHANGED coquiRest

\* stop(): "Clear the queue": get_nowait() until the queue is empty
StopDrain ==
    /\ coqui.spc = "s_drain"
    /\ coqui' = IF coqui.queue = <<>> THEN [coqui EXCEPT !.spc = "idle"]
                ELSE [coqui EXCEPT !.queue = Tail(@)]
    /\ UNCHANGED coquiRest

InitCoqui ==
    /\ AssistantIdle
    /\ RecorderIdle
    /\ TerminalIdle
    /\ UnitsIdle

NextCoqui ==
    \/ CoquiSpeak
    \/ CoquiClearTest
    \/ CoquiClearGet
    \/ CoquiThread
    \/ CoquiNext
    \/ CoquiPut
    \/ CoquiEnd
    \/ CoquiJoin
    \/ CoquiJoinTimeout
    \/ WorkerGet
    \/ WorkerGot
    \/ WorkerStart
    \/ WorkerPlayed
    \/ WorkerCleanTest
    \/ WorkerCleanGet
    \/ WorkerExit
    \/ StopCall
    \/ StopDrain

SpecCoqui == InitCoqui /\ [][NextCoqui]_vars

\* the steps of a speak call under way, of the playback thread and of a
\* stop() call under way: each thread that can take a step takes one
SpeakRuns ==
    \/ CoquiClearTest
    \/ CoquiClearGet
    \/ CoquiThread
    \/ CoquiNext
    \/ CoquiPut
    \/ CoquiEnd
    \/ CoquiJoin
    \/ CoquiJoinTimeout

WorkerRuns ==
    \/ WorkerGet
    \/ WorkerGot
    \/ WorkerStart
    \/ WorkerPlayed
    \/ WorkerCleanTest
    \/ WorkerCleanGet
    \/ WorkerExit

SpecCoquiFair ==
    /\ InitCoqui
    /\ [][NextCoqui]_vars
    /\ WF_vars(SpeakRuns)
    /\ WF_vars(WorkerRuns)
    /\ WF_vars(StopDrain)

(***************************************************************************)
(* AudioPlayer.play_file and ClaudeClient.send_query called from several   *)
(* threads on one AudioPlayer and one ClaudeClient.                        *)
(***************************************************************************)
exclRest ==
    <<fsVars, pmVars, ccVars, ifVars, mainVars, watchVars, idObs, emptyRun, askObs,
      recVars, termVars, streams, cal, coqui, lastCall>>

PlayerBusyNever(playing) == FALSE

\* play_file: "if self.is_playing: return False".
PlayerBusy(playing) == playing

\* play_file: the audio file does not exist, the call returns False.
PlayMissing ==
    \E t \in Callers :
       /\ excl.ppc[t] = "idle"
       /\ excl' = [excl EXCEPT !.ppc[t] = "done", !.pret[t] = "false",
                               !.met[t] = FALSE, !.played[t] = FALSE]
       /\ UNCHANGED exclRest

\* play_file: "with self._lock:" is entered.
PlayLock ==
    \E t \in Callers :
       /\ excl.ppc[t] = "idle"
       /\ excl.plock = 0
       /\ excl' = [excl EXCEPT !.ppc[t] = "locked", !.plock = t,
                               !.met[t] = FALSE, !.played[t] = FALSE]
       /\ UNCHANGED exclRest

\* play_file: the body of the with block; the playback starts after it.
PlayTest ==
    \E t \in Callers :
       /\ excl.ppc[t] = "locked"
       /\ excl.plock = t
       /\ IF PlayerBusy(excl.is_playing)
          THEN excl' = [excl EXCEPT !.ppc[t] = "done", !.pret[t] = "false",
                                    !.met[t] = (excl.sounding # {}),
                                    !.plock = 0]
          ELSE excl' = [excl EXCEPT !.ppc[t] = "playing",
                                    !.is_playing = TRUE,
                                    !.cancel_requested = FALSE,
                                    !.met[t] = (excl.sounding # {}),
                                    !.played[t] = TRUE,
                                    !.sounding = @ \cup {t},
                                    !.plock = 0]
       /\ UNCHANGED exclRest

\* _play_with_sounddevice / _play_with_paplay, blocking: the playback ends
\* (by itself, after sd.stop(), or with an error) and the result is kept.
PlayEnd ==
    \E t \in Callers, ok \in {"true", "false"} :
       /\ excl.ppc[t] = "playing"
       /\ excl' = [excl EXCEPT !.ppc[t] = "finally", !.pret[t] = ok,
                               !.sounding = @ \ {t}]
       /\ UNCHANGED exclRest

\* play_file: "finally: with self._lock: self.is_playing = False".
PlayFinally ==
    \E t \in Callers :
       /\ excl.ppc[t] = "finally"
       /\ excl.plock = 0
       /\ excl' = [excl EXCEPT !.ppc[t] = "done", !.is_playing = FALSE]
       /\ UNCHANGED exclRest

\* The caller has the result of play_file.
PlayReturn ==
    \E t \in Callers :
       /\ excl.ppc[t] = "done"
       /\ excl' = [excl EXCEPT !.ppc[t] = "idle", !.pret[t] = "none"]
       /\ UNCHANGED exclRest

\* AudioPlayer.stop.
PlayerStop ==
    /\ excl.plock = 0
    /\ ~excl.cancel_requested
    /\ excl' = [excl EXCEPT !.cancel_requested = TRUE]
    /\ UNCHANGED exclRest

\* send_query: "with self._lock:" is entered.
SendLock ==
    \E t \in Callers :
       /\ excl.cpc[t] = "idle"
       /\ excl.clock = 0
       /\ excl' = [excl EXCEPT !.cpc[t] = "locked", !.clock = t]
       /\ UNCHANGED exclRest

\* send_query: subprocess.Popen starts the process, or raises and the
\* exception leaves the with block.
SendPopen ==
    \E t \in Callers, started \in BOOLEAN :
       /\ excl.cpc[t] = "locked"
       /\ excl.clock = t
       /\ IF started
          THEN excl' = [excl EXCEPT !.cpc[t] = "communicate",
                                    !.current_process = t,
                                    !.procs = @ \cup {t}]
          ELSE excl' = [excl EXCEPT !.cpc[t] = "finally", !.clock = 0]
       /\ UNCHANGED exclRest

\* send_query: communicate() returns when the process has ended; every
\* return statement that follows leaves the with block.
SendCommunicate ==
    \E t \in Callers :
       /\ excl.cpc[t] = "communicate"
       /\ excl' = [excl EXCEPT !.cpc[t] = "finally", !.procs = @ \ {t},
                               !.clock = 0]
       /\ UNCHANGED exclRest

\* send_query: "finally: with self._lock: self.current_process = None".
SendFinally ==
    \E t \in Callers :
       /\ excl.cpc[t] = "finally"
       /\ excl.clock = 0
       /\ excl' = [excl EXCEPT !.cpc[t] = "idle", !.current_process = 0]
       /\ UNCHANGED exclRest

\* ClaudeClient.cancel.
ClientCancel ==
    /\ excl.clock = 0
    /\ excl.current_process # 0
    /\ excl' = [excl EXCEPT !.procs = @ \ {excl.current_process},
                            !.current_process = 0]
    /\ UNCHANGED exclRest

InitExcl ==
    /\ AssistantIdle
    /\ RecorderIdle
    /\ TerminalIdle
    /\ UnitsIdle

NextExcl ==
    \/ PlayMissing
    \/ PlayLock
    \/ PlayTest
    \/ PlayEnd
    \/ PlayFinally
    \/ PlayReturn
    \/ PlayerStop
    \/ SendLock
    \/ SendPopen
    \/ SendCommunicate
    \/ SendFinally
    \/ ClientCancel

SpecExcl == InitExcl /\ [][NextExcl]_vars

(***************************************************************************)
(* AudioRecorder: calibration of the noise floor, its persistence, and    *)
(* the opening and closing of the input stream by the three operations    *)
(* that read the audio device.  Amplitudes, the noise floor and the       *)
(* threshold are kept in whole amplitude units.                           *)
(***************************************************************************)
calRest ==
    <<fsVars, pmVars, ccVars, ifVars, mainVars, watchVars, idObs, emptyRun, askObs,
      recVars, termVars, coqui, excl, lastCall>>

CalAmplitudes == {0, 300, 2000}

\* --silence-threshold on the command line (default 1000).
StartThresholds == {silence_threshold \div 2, silence_threshold, 4 * silence_threshold}

Max(a, b) == IF a > b THEN a ELSE b

RECURSIVE SumOf(_)
SumOf(q) == IF q = <<>> THEN 0 ELSE Head(q) + SumOf(Tail(q))

RECURSIVE SumSquares(_)
SumSquares(q) == IF q = <<>> THEN 0 ELSE Head(q) * Head(q) + SumSquares(Tail(q))

\* The largest r in lo..hi with r * r <= x.
RECURSIVE RootIn(_, _, _)
RootIn(x, lo, hi) ==
    IF lo = hi THEN lo
    ELSE LET mid == (lo + hi + 1) \div 2
         IN IF mid * mid <= x THEN RootIn(x, mid, hi) ELSE RootIn(x, lo, mid - 1)

ISqrt(x) == RootIn(x, 0, Min(x, 46340))

\* np.mean(amplitudes) + 2 * np.std(amplitudes), with
\* std = sqrt(mean(x^2) - mean(x)^2) = sqrt(n * sum(x^2) - sum(x)^2) / n.
NoiseFloor(q) ==
    LET n == Len(q)
        sum == SumOf(q)
    IN (sum + 2 * ISqrt(n * SumSquares(q) - sum * sum)) \div n

AdaptiveThresholdKeepsOld(floor, old) == Max(floor * 3, old)

\* calibrate_noise_floor: max(adaptive_threshold, 1000).
AdaptiveThreshold(floor, old) == Max(floor * 3, 1000)

\* _load_calibration on a configuration holding threshold old.
LoadedThreshold(file, old) ==
    IF file # NoFloor /\ file # 0 THEN Max(file * 3, old) ELSE old

\* calibrate_noise_floor: audio.open succeeds.
CalOpen ==
    /\ cal.pc = "idle"
    /\ cal' = [cal EXCEPT !.pc = "reading", !.op = "calibrate", !.opened = TRUE,
                          !.amplitudes = <<>>,
                          !.before = <<cal.noise_floor, cal.silence_threshold>>]
    /\ streams' = streams + 1
    /\ UNCHANGED calRest

\* calibrate_noise_floor: audio.open raises; nothing catches it.
CalOpenFails ==
    /\ cal.pc = "idle"
    /\ cal' = [cal EXCEPT !.pc = "raised", !.op = "calibrate", !.opened = FALSE,
                          !.amplitudes = <<>>,
                          !.before = <<cal.noise_floor, cal.silence_threshold>>]
    /\ UNCHANGED <<streams, calRest>>

\* calibrate_noise_floor: one turn of the sampling loop.
CalRead ==
    \E amplitude \in CalAmplitudes :
       /\ cal.pc = "reading"
       /\ cal.op = "calibrate"
       /\ Len(cal.amplitudes) < calibration_samples
       /\ cal' = [cal EXCEPT !.amplitudes = Append(@, amplitude)]
       /\ UNCHANGED <<streams, calRest>>

\* calibrate_noise_floor: stream.read raises, or the user interrupts; the
\* method is left at once.
CalReadFails ==
    /\ cal.pc = "reading"
    /\ cal.op = "calibrate"
    /\ Len(cal.amplitudes) < calibration_samples
    /\ cal' = [cal EXCEPT !.pc = "raised"]
    /\ UNCHANGED <<streams, calRest>>

\* calibrate_noise_floor: stop_stream and close after the loop.
CalClose ==
    /\ cal.pc = "reading"
    /\ cal.op = "calibrate"
    /\ Len(cal.amplitudes) = calibration_samples
    /\ cal' = [cal EXCEPT !.pc = "compute"]
    /\ streams' = streams - 1
    /\ UNCHANGED calRest

\* calibrate_noise_floor: the two assignments and _save_calibration.
CalCompute ==
    \E keep \in BOOLEAN :
       /\ cal.pc = "compute"
       /\ LET floor == NoiseFloor(cal.amplitudes)
              threshold == AdaptiveThreshold(floor, cal.silence_threshold)
          IN cal' = [cal EXCEPT !.pc = "done",
                                !.noise_floor = floor,
                                !.silence_threshold = threshold,
                                !.file = floor,
                                !.last = [amplitudes |-> cal.amplitudes,
                                          noise_floor |-> floor,
                                          silence_threshold |-> threshold],
                                !.ref = IF keep THEN cal.last ELSE @]
       /\ UNCHANGED <<streams, calRest>>

\* record_with_vad / record_with_amplitude: audio.open succeeds.
RecOpen ==
    /\ cal.pc = "idle"
    /\ cal' = [cal EXCEPT !.pc = "reading", !.op = "record", !.opened = TRUE,
                          !.before = <<cal.noise_floor, cal.silence_threshold>>]
    /\ streams' = streams + 1
    /\ UNCHANGED calRest

\* record_with_vad / record_with_amplitude: audio.open raises before the
\* try statement.
RecOpenFails ==
    /\ cal.pc = "idle"
    /\ cal' = [cal EXCEPT !.pc = "raised", !.op = "record", !.opened = FALSE,
                          !.before = <<cal.noise_floor, cal.silence_threshold>>]
    /\ UNCHANGED <<streams, calRest>>

\* record_with_vad / record_with_amplitude: the loop ends (audio, timeout,
\* keyboard interrupt) or a read raises; the finally clause closes the
\* stream in each case.
RecEnd ==
    \E how \in {"return", "interrupt", "read_error"} :
       /\ cal.pc = "reading"
       /\ cal.op = "record"
       /\ cal' = [cal EXCEPT !.pc = IF how = "read_error" THEN "raised" ELSE "done"]
       /\ streams' = streams - 1
       /\ UNCHANGED calRest

\* The operation has returned to its caller.
CalReturn ==
    /\ cal.pc = "done"
    /\ cal' = [cal EXCEPT !.pc = "idle", !.op = "none", !.opened = FALSE]
    /\ UNCHANGED <<streams, calRest>>

\* main: the finally clause runs interface.cleanup(), audio.terminate()
\* releases the device, and the program ends.
MainCleanup ==
    /\ cal.pc \in {"idle", "raised"}
    /\ cal' = [cal EXCEPT !.pc = "exited"]
    /\ streams' = 0
    /\ UNCHANGED calRest

\* The program is started again: AudioConfig with the threshold of the
\* command line, then AudioRecorder.__init__ and _load_calibration.
Restart ==
    \E start \in StartThresholds :
       /\ cal.pc = "exited"
       /\ cal' = [cal EXCEPT !.pc = "idle", !.op = "load", !.opened = FALSE,
                             !.noise_floor = cal.file,
                             !.silence_threshold = LoadedThreshold(cal.file, start),
                             !.amplitudes = <<>>,
                             !.before = <<NoFloor, start>>]
       /\ UNCHANGED <<streams, calRest>>

InitCalibrate ==
    /\ AssistantIdle
    /\ RecorderIdle
    /\ TerminalIdle
    /\ UnitsIdle

NextCalibrate ==
    \/ CalOpen
    \/ CalOpenFails
    \/ CalRead
    \/ CalReadFails
    \/ CalClose
    \/ CalCompute
    \/ RecOpen
    \/ RecOpenFails
    \/ RecEnd
    \/ CalReturn
    \/ MainCleanup
    \/ Restart

SpecCalibrate == InitCalibrate /\ [][NextCalibrate]_vars

(***************************************************************************)
(* ProfileManager: create_profile, load_profile and reset_context called   *)
(* in any order with any spoken name.                                      *)
(***************************************************************************)
\* names a caller can pass: a profile that exists at start, a part of its
\* name, a name without a match, a lone full stop (what "Load profile."
\* leaves after the split)
SpokenNames == {"work", "or", "zzz", "."}

pmRest ==
    <<sessionFile, ccVars, ifVars, mainVars, watchVars, idObs, emptyRun, askObs,
      recVars, termVars, streams, cal, coqui, excl>>

PmBefore ==
    [current_profile |-> current_profile, reset_context_mode |-> reset_context_mode,
     stateFile |-> stateFile]

\* ProfileManager.create_profile(name).
PmCreate ==
    \E name \in SpokenNames :
       /\ dirs' = DirsAfterCreate(name, dirs)
       /\ claudeMd' = IF DirExists(_sanitize_name(name), dirs) THEN claudeMd
                      ELSE claudeMd \cup {_sanitize_name(name)}
       /\ lastCall' = [op |-> "create",
                       result |-> IF DirExists(_sanitize_name(name), dirs)
                                  THEN "False" ELSE "True",
                       before |-> PmBefore]
       /\ UNCHANGED <<stateFile, pmVars, pmRest>>

\* ProfileManager.load_profile(name).
PmLoad ==
    \E name \in SpokenNames :
       /\ load_profile(name, dirs, claudeMd)
       /\ lastCall' = [op |-> "load",
                       result |-> ResolveProfile(name, dirs, claudeMd),
                       before |-> PmBefore]
       /\ UNCHANGED <<dirs, claudeMd, pmRest>>

\* ProfileManager.reset_context().
PmReset ==
    /\ reset_context
    /\ lastCall' = [op |-> "reset", result |-> "None",
                    before |-> PmBefore]
    /\ UNCHANGED <<dirs, claudeMd, pmRest>>

InitProfiles ==
    /\ InitCommon
    /\ tts_engine = TRUE
    /\ mode = "listen"
    /\ pc = "listen"
    /\ text = NoText

NextProfiles ==
    \/ PmCreate
    \/ PmLoad
    \/ PmReset

SpecProfiles == InitProfiles /\ [][NextProfiles]_vars

(***************************************************************************)
(* VoiceInterface.conversation_mode with its clock: time.time() is now,    *)
(* in seconds; a listen and a turn take time.  heardAt is the time of the  *)
(* last listen that gave text (of the entry before the first), quietSince  *)
(* tells whether a listen without text followed it.                        *)
(***************************************************************************)
ConvTimeoutSeconds == 120

MaxClock == 300

\* how long a listen(timeout=30) and the handling of a turn can take
ListenTimes == {10, 30, 50}
TurnTimes == {0, 20, 130}

\* what the listen of conversation_mode can return
ConvHeard == {NoText, "Goodbye!", "what time is it"}

convRest ==
    <<fsVars, pmVars, ccVars, ifVars, mainVars, watchVars, idObs, emptyRun, askObs,
      recVars, termVars, streams, cal, coqui, excl>>

ConvTimedOutAtLimit(now, last_activity_time) ==
    (now - last_activity_time) >= ConvTimeoutSeconds

\* conversation_mode: (time.time() - last_activity_time) > 120.
ConvTimedOut(now, last_activity_time) ==
    (now - last_activity_time) > ConvTimeoutSeconds

\* conversation_mode up to "last_activity_time = time.time()".
CmEnter ==
    /\ lastCall = NoCall
    /\ lastCall' = [op |-> "conversation_mode", pc |-> "top", now |-> 0,
                    last_activity_time |-> 0, text |-> NoText, spoken |-> "",
                    heardAt |-> 0, quietSince |-> FALSE]
    /\ UNCHANGED convRest

\* conversation_mode: the test at the top of the loop.
CmCheck ==
    /\ lastCall.op = "conversation_mode"
    /\ lastCall.pc = "top"
    /\ lastCall' =
          IF ConvTimedOut(lastCall.now, lastCall.last_activity_time)
          THEN [lastCall EXCEPT !.pc = "ended",
                                !.spoken = "Conversation timed out. Returning to wake mode."]
          ELSE [lastCall EXCEPT !.pc = "listen"]
    /\ UNCHANGED convRest

\* conversation_mode: text = self.listen(timeout=30).
CmListen ==
    \E d \in ListenTimes, t \in ConvHeard :
       /\ lastCall.op = "conversation_mode"
       /\ lastCall.pc = "listen"
       /\ lastCall.now + d <= MaxClock
       /\ lastCall' = [lastCall EXCEPT !.pc = "got", !.now = @ + d, !.text = t,
                                       !.heardAt = IF t = NoText THEN @
                                                   ELSE lastCall.now + d,
                                       !.quietSince = (t = NoText)]
       /\ UNCHANGED convRest

\* conversation_mode: "if not text: continue", the clock set again, the
\* goodbye test.
CmGot ==
    /\ lastCall.op = "conversation_mode"
    /\ lastCall.pc = "got"
    /\ lastCall' =
          IF lastCall.text = NoText
          THEN [lastCall EXCEPT !.pc = "top"]
          ELSE IF _is_goodbye_command(lastCall.text)
               THEN [lastCall EXCEPT !.pc = "ended",
                                     !.last_activity_time = lastCall.now,
                                     !.spoken = "Goodbye! Have a great day!"]
               ELSE [lastCall EXCEPT !.pc = "turn",
                                     !.last_activity_time = lastCall.now]
    /\ UNCHANGED convRest

\* conversation_mode: a profile command, or send_to_claude and speak.
CmTurn ==
    \E d \in TurnTimes :
       /\ lastCall.op = "conversation_mode"
       /\ lastCall.pc = "turn"
       /\ lastCall.now + d <= MaxClock
       /\ lastCall' = [lastCall EXCEPT !.pc = "top", !.now = @ + d]
       /\ UNCHANGED convRest

InitConv ==
    /\ AssistantIdle
    /\ RecorderIdle
    /\ TerminalIdle
    /\ UnitsIdle

NextConv ==
    \/ CmEnter
    \/ CmCheck
    \/ CmListen
    \/ CmGot
    \/ CmTurn

SpecConv == InitConv /\ [][NextConv]_vars

(***************************************************************************)
(* VoiceInterface._is_goodbye_command on its own.                          *)
(***************************************************************************)
\* the eight phrases as they can be written: lower case, capitalised, upper
\* case
GoodbyeSpellings ==
    {"goodbye", "Goodbye", "GOODBYE", "bye", "Bye", "BYE",
     "bye bye", "Bye bye", "BYE BYE", "see you", "See you", "SEE YOU",
     "see you later", "See you later", "SEE YOU LATER",
     "talk to you later", "Talk to you later", "TALK TO YOU LATER",
     "exit", "Exit", "EXIT", "quit", "Quit", "QUIT"}

\* a spelling with white space before it, a letter or nothing after it, and
\* punctuation, white space or nothing at the end; phrase tells whether the
\* words are exactly those of a goodbye phrase
GoodbyeTexts ==
    {[phrase |-> (more = ""), text |-> pad \o spelling \o more \o tail] :
        spelling \in GoodbyeSpellings, pad \in {"", " "}, more \in {"", "e"},
        tail \in {"", ".", "!", "?!", " "}}

unitRest ==
    <<fsVars, pmVars, ccVars, ifVars, mainVars, watchVars, idObs, emptyRun, askObs,
      recVars, termVars, streams, cal, coqui, excl>>

\* VoiceInterface._is_goodbye_command(text).
GoodbyeCall ==
    /\ lastCall.op = "_is_goodbye_command"
    /\ lastCall.result = "none"
    /\ lastCall' = [lastCall EXCEPT
                       !.result = IF _is_goodbye_command(lastCall.text)
                                  THEN "True" ELSE "False"]
    /\ UNCHANGED unitRest

InitGoodbye ==
    /\ AssistantIdle
    /\ RecorderIdle
    /\ TerminalIdle
    /\ streams = 0
    /\ cal = CalIdle
    /\ coqui = CoquiIdle
    /\ excl = ExclIdle
    /\ \E t \in GoodbyeTexts :
          lastCall = [op |-> "_is_goodbye_command", text |-> t.text,
                      phrase |-> t.phrase, result |-> "none"]

NextGoodbye == GoodbyeCall

SpecGoodbye == InitGoodbye /\ [][NextGoodbye]_vars

(***************************************************************************)
(* WhisperTranscriber.transcribe on its own: what it returns for a number  *)
(* of recorded chunks and the text the model gave.                         *)
(***************************************************************************)
\* the characters of the texts below whose ord() is 128 or more
NonAsciiChars == {"é"}

\* ''.join(char for char in text if ord(char) < 128)
KeepAscii(s) ==
    LET RECURSIVE go(_)
        go(i) == IF i > Len(s) THEN ""
                 ELSE (IF CharAt(s, i) \in NonAsciiChars THEN "" ELSE CharAt(s, i))
                      \o go(i + 1)
    IN go(1)

\* the texts transcribe drops besides those of at most one character
NoiseTexts == {".", ",", "?", "!", "...", "---"}

\* transcribe(audio_frames) for n chunks and result["text"] = heard, with a
\* model loaded; min_audio_length is 0.5 s, and n * chunk_size / sample_rate
\* is below it when 2 * n * chunk_size is below sample_rate. NoText is None.
transcribe(n, heard) ==
    LET said == KeepAscii(Strip(heard))
    IN IF n = 0 \/ 2 * n * chunk_size < sample_rate THEN NoText
       ELSE IF Len(said) <= 1 \/ said \in NoiseTexts THEN NoText
       ELSE said

\* the chunk counts: none, just below and just above half a second, many
TranscribeLengths == {0, 7, 8, 100}

\* what the Whisper model can give as result["text"]
TranscribeTexts ==
    {"", " ", "a", "5", " 7", ".", ",", "?", "!", "...", "---", "?!", "!!", "..",
     "12345", "5 4 6 1 2", "5, 4, 6, 1, 2", "42", " ok", " Stop.", " What time is it?",
     " café ", "é", "é."}

\* WhisperTranscriber.transcribe(audio_frames).
TranscribeCall ==
    /\ lastCall.op = "transcribe"
    /\ ~lastCall.returned
    /\ lastCall' = [lastCall EXCEPT !.returned = TRUE,
                                    !.result = transcribe(lastCall.n, lastCall.heard)]
    /\ UNCHANGED unitRest

InitTranscribe ==
    /\ AssistantIdle
    /\ RecorderIdle
    /\ TerminalIdle
    /\ streams = 0
    /\ cal = CalIdle
    /\ coqui = CoquiIdle
    /\ excl = ExclIdle
    /\ \E n \in TranscribeLengths, heard \in TranscribeTexts :
          lastCall = [op |-> "transcribe", n |-> n, heard |-> heard,
                      returned |-> FALSE, result |-> NoText]

NextTranscribe == TranscribeCall

SpecTranscribe == InitTranscribe /\ [][NextTranscribe]_vars

(***************************************************************************)
(* Properties.                                                             *)
(***************************************************************************)
\* send_query has its command built and the process not yet answered
InFlight == pc \in {"sq_popen", "sq_wait"}

\* the main thread is inside send_to_claude or handling its reply
InDispatch ==
    pc \in {"stc_start", "sq_prepare", "sq_popen", "sq_wait", "sq_finally",
            "stc_clear", "stc_stop", "stc_done"}

\* the main thread is inside process_profile_commands
InProfileCommand == pc \in {"ppc", "ppc_name", "ppc_desc_q", "ppc_desc"}

\* send_query has returned
AfterSendQuery == pc \in {"stc_clear", "stc_stop", "stc_done"}

\* C1: when the ESC watcher and the voice watcher both fire during one
\* send_to_claude call, exactly one cancellation is made: once both watchers
\* have ended, ClaudeClient.cancel() and the speech engine's stop() have each
\* been invoked exactly once.
C1_OneCancellation ==
    (fired = {"esc", "voice"} /\ kpc = "k_done" /\ vpc = "v_done")
        => (cancelCalls = 1 /\ (tts_engine => stopCalls = 1))

\* C2: when cancel() was invoked while send_query was blocked waiting for the
\* process, send_query has returned only with the process terminated by the
\* cancel, not ended on its own, and current_process is none afterwards.
C2_CancelReleasesWait ==
    (cancelDuringWait /\ AfterSendQuery)
        => (procState = "terminated" /\ current_process = "none")

C4_ResetSendsNoId ==
    (InFlight /\ reset_context_mode)
        => (~HasResume(cmd) /\ cmd.cwd \notin DOMAIN sessionFile
            /\ cmd.cwd = StoragePath(current_profile))

\* C4 witness: a reset dispatch is about to invoke the process.
C4_Witness ==
    /\ pc = "sq_popen"
    /\ reset_context_mode
    /\ cmd.cwd \in StartPaths
    /\ ~HasResume(cmd)

\* a step in which load_profile finds a profile
LoadStep ==
    \/ /\ pc = "ppc"
       /\ CommandTable[text] = "load"
       /\ ResolveProfile(AfterFirst("load profile", Lower(text)), dirs, claudeMd) # NoProfile
    \/ pc = "ppc_name" /\ pc' = "ppc_desc_q"

\* the parts of C5 that do not depend on who may clear the flag: only a
\* "reset context" command sets it; a dispatch made with the flag set is a
\* reset (no id passed, the stored id removed); the flag is clear right after
\* the dispatch
C5_Dispatch ==
    /\ (~reset_context_mode /\ reset_context_mode')
          => (pc = "ppc" /\ IsResetContext(text))
    /\ (pc = "sq_prepare" /\ pc' = "sq_popen" /\ reset_context_mode)
          => (~HasResume(cmd') /\ cmd'.cwd \notin DOMAIN sessionFile')
    /\ (pc = "stc_clear" /\ pc' = "stc_stop") => ~reset_context_mode'
    /\ (pc = "sq_prepare" /\ pc' = "sq_popen" /\ ~reset_context_mode
           /\ StoragePath(current_profile) \in DOMAIN sessionFile)
          => HasResume(cmd')

\* C5 as stated: the reset flag is one-shot; once set it stays set until the
\* next dispatch, which is a reset, and it is cleared right after it; no other
\* operation clears it.
C5_OnlyDispatchClears ==
    [][C5_Dispatch /\ ((reset_context_mode /\ ~reset_context_mode') => pc = "stc_clear")]_vars

\* C5 as amended: as stated, except that a load_profile that finds a profile
\* (also the one made by "create profile") clears the flag too, without any
\* reset dispatch.
C5_DispatchOrLoadClears ==
    [][C5_Dispatch /\ ((reset_context_mode /\ ~reset_context_mode')
                          => (pc = "stc_clear" \/ LoadStep))]_vars

\* C5 witness: the flag was set, the dispatch has been made as a reset, and
\* the flag is about to be cleared.
C5_Witness ==
    /\ pc = "stc_clear"
    /\ reset_context_mode
    /\ ~HasResume(cmd)

C7_InactivityExit ==
    [][/\ (pc = "ww_turn" /\ text = NoText)
             => /\ inactive_count' = inactive_count + 1
                /\ (pc' = "ww_top") = (emptyRun = 3)
                /\ pc' \in {"ww_top", "ww_listen"}
       /\ (pc = "ww_turn" /\ text # NoText) => inactive_count' = 0
       /\ (pc' = "ww_listen") => (inactive_count' = emptyRun' /\ emptyRun' < 3)
      ]_vars

\* C7 witness: the session has ended by inactivity.
C7_Witness ==
    /\ pc = "ww_top"
    /\ emptyRun = 3
    /\ inactive_count = 3

\* C8: a goodbye heard as a turn of the wake-word session or of conversation
\* mode ends that conversation and is neither dispatched nor handled as a
\* profile command; the session goes back to the wake-word wait only by a
\* goodbye, by inactivity or after a switch to conversation mode, and after a
\* dispatch it listens for the next turn.
C8_GoodbyeEnds ==
    [][/\ (pc \in {"ww_turn", "cv_turn"} /\ text # NoText /\ _is_goodbye_command(text))
             => (loop' = "none" /\ pc' \in {"ww_top", "done"})
       /\ (loop' \in {"wake", "conv"} /\ (InDispatch' \/ InProfileCommand'))
             => ~_is_goodbye_command(text')
       /\ (pc # "ww_top" /\ pc' = "ww_top")
             => \/ pc = "ww_turn" /\ text # NoText /\ _is_goodbye_command(text)
                \/ pc = "ww_turn" /\ text = NoText /\ emptyRun = 3
                \/ loop = "conv"
       /\ (pc = "stc_done" /\ loop = "wake") => pc' = "ww_listen"
       /\ (pc = "stc_done" /\ loop = "conv") => pc' = "cv_top"
      ]_vars

\* C8 witness: after a completed dispatch in the wake-word session, a goodbye
\* is heard.
C8_Witness ==
    /\ pc = "ww_turn"
    /\ loop = "wake"
    /\ cancel_requested
    /\ text # NoText
    /\ _is_goodbye_command(text)

\* C9: an utterance that contains one of the four profile phrases is never
\* dispatched to the external process.
C9_CommandsStayLocal == InDispatch => ~IsProfileCommand(text)

\* C9 witness: a "reset context" was handled locally and the session listens
\* for the next turn.
C9_Witness ==
    /\ pc = "ww_listen"
    /\ reset_context_mode

\* C10: single-question mode listens once for the question, dispatches at
\* most once, speaks at most one reply and then ends; nothing follows.
C10_SingleTurn ==
    mode = "ask" =>
        /\ askListens <= 1
        /\ askDispatches <= 1
        /\ askReplies <= 1
        /\ askDispatches <= askListens
        /\ askReplies <= askDispatches
        /\ pc = "done" => (askListens = 1 /\ ~ENABLED Next)

\* C10 witness: single-question mode has ended after one dispatch and one
\* spoken reply.
C10_Witness ==
    /\ mode = "ask"
    /\ pc = "done"
    /\ askDispatches = 1
    /\ askReplies = 1

\* the chunk at i completes a run of consecutive_speech_needed chunks above
\* the start threshold
StartRunAt(tr, i) ==
    /\ i >= consecutive_speech_needed
    /\ i <= Len(tr)
    /\ \A j \in (i - consecutive_speech_needed + 1)..i : tr[j] > speech_start_threshold

\* the first such chunk, 0 when there is none
FirstStart(tr) ==
    IF \E i \in 1..Len(tr) : StartRunAt(tr, i)
    THEN CHOOSE i \in 1..Len(tr) :
            StartRunAt(tr, i) /\ \A j \in 1..(i - 1) : ~StartRunAt(tr, j)
    ELSE 0

\* the chunks delivered so far qualify as a speech start for the endpointer
\* in use
SpeechBegan ==
    IF vad_model THEN FirstStart(trace) # 0 ELSE quietRun # rec.n

InLoop == rpc \in {"vad_loop", "amp_loop"}

\* C11: with a timeout given, once it has elapsed without a speech start the
\* recording reads no further chunk and leaves its loop, and a recording
\* that ends without a speech start returns None with no frame recorded.
C11_TimeoutReturnsNone ==
    [][/\ (InLoop /\ timeout # 0 /\ rec.now > timeout /\ ~SpeechBegan)
             => (rpc' \in {"vad_ret", "amp_ret", "interrupted"} /\ rec'.n = rec.n)
       /\ (rpc' = "done" /\ ~SpeechBegan') => (rec'.result = NoFrames /\ rec'.frames = <<>>)
       /\ (InLoop /\ ~SpeechBegan') => rec'.frames = <<>>
      ]_vars

\* C11 witness: record_with_vad has returned None after its timeout elapsed
\* over chunks that never made a speech start.
C11_Witness ==
    /\ vad_model
    /\ rpc = "done"
    /\ timeout # 0
    /\ rec.now > timeout
    /\ rec.n > 0
    /\ ~SpeechBegan
    /\ rec.result = NoFrames

\* record_with_vad is in its loop or past it
InVad == vad_model /\ rpc \in {"vad_loop", "vad_ret", "done"}

\* a step of record_with_vad that reads a chunk
VadReads == vad_model /\ rpc = "vad_loop" /\ Len(trace') = Len(trace) + 1

\* C12: record_with_vad has recording_started exactly from the first chunk
\* that completes a run of consecutive_speech_needed chunks above the start
\* threshold, and sets it at that chunk; once started, a chunk is treated as
\* speech (count raised, silence mark cleared, activity time set) if and
\* only if its probability is above the continue threshold.
C12_TwoThresholds ==
    [][/\ InVad' => (rec'.recording_started <=> FirstStart(trace') # 0)
       /\ (VadReads /\ ~rec.recording_started /\ rec'.recording_started)
             => FirstStart(trace') = Len(trace')
       /\ (VadReads /\ rec.recording_started)
             => IF trace'[Len(trace')] > speech_continue_threshold
                THEN /\ rec'.consecutive_speech_count = rec.consecutive_speech_count + 1
                     /\ rec'.silence_start_time = NoTime
                     /\ rec'.last_activity_time = rec'.now
                ELSE /\ rec'.consecutive_speech_count = 0
                     /\ rec'.silence_start_time # NoTime
                     /\ rec'.last_activity_time = rec.last_activity_time
      ]_vars

\* C12 witness: a single chunk above the start threshold did not start the
\* recording, a later run of two did, and a chunk between the two
\* thresholds was then counted as speech.
C12_Witness ==
    /\ InVad
    /\ Len(trace) = 5
    /\ trace[1] > speech_start_threshold
    /\ FirstStart(trace) = 4
    /\ trace[5] > speech_continue_threshold
    /\ trace[5] <= speech_start_threshold
    /\ rec.recording_started
    /\ rec.consecutive_speech_count = 3
    /\ rec.silence_start_time = NoTime

\* the k-th smallest member of a set of numbers, and the set in rising order
Nth(S, k) == CHOOSE x \in S : Cardinality({y \in S : y < x}) = k - 1
Rising(S) == [k \in 1..Cardinality(S) |-> Nth(S, k)]

\* the last k members of a sequence
LastOf(q, k) == IF Len(q) <= k THEN q ELSE SubSeq(q, Len(q) - k + 1, Len(q))

\* the chunks delivered so far whose probability is above 0.6, in arrival order
MaybeChunks(tr) ==
    LET at == Rising({i \in 1..Len(tr) : tr[i] > MaybeSpeech})
    IN [k \in 1..Len(at) |-> [n |-> at[k], prob |-> tr[at[k]]]]

\* C13: until recording starts the pre-buffer holds at most pre_buffer_size
\* chunks: the latest chunks above 0.6, in arrival order; at the chunk that
\* starts the recording the segment begins with exactly those chunks, in
\* that order.
C13_PreBuffer ==
    [][/\ (InVad' /\ ~rec'.recording_started)
             => /\ Len(rec'.pre_buffer) <= pre_buffer_size
                /\ rec'.pre_buffer = LastOf(MaybeChunks(trace'), pre_buffer_size)
                /\ rec'.frames = <<>>
       /\ (VadReads /\ ~rec.recording_started /\ rec'.recording_started)
             => LET pre == LastOf(MaybeChunks(trace'), pre_buffer_size)
                IN /\ Len(rec'.frames) >= Len(pre)
                   /\ SubSeq(rec'.frames, 1, Len(pre)) = pre
                   /\ rec'.pre_buffer = <<>>
      ]_vars

\* C13 witness: the pre-buffer overflowed, its oldest chunk was evicted, and
\* the recording started with a chunk below the start threshold at its
\* front.
C13_Witness ==
    /\ InVad
    /\ rec.recording_started
    /\ trace[1] > MaybeSpeech
    /\ Len(rec.frames) > pre_buffer_size
    /\ rec.frames[1].n = 2
    /\ rec.frames[1].prob <= speech_start_threshold

\* the trace has exactly consecutive_speech_needed chunks above the start
\* threshold, next to each other, and every chunk after them is at or
\* below the continue threshold
ExactStartThenSilence(tr) ==
    LET s == FirstStart(tr)
    IN /\ s # 0
       /\ Cardinality({i \in 1..Len(tr) : tr[i] > speech_start_threshold})
             = consecutive_speech_needed
       /\ \A i \in (s + 1)..Len(tr) : tr[i] <= speech_continue_threshold

\* the three parts of the chunk count: the pre-buffer when the start is
\* confirmed, the chunks from the confirming one on that are above the
\* continue threshold, and the chunks after them
PreBufferAtStart(tr) ==
    Len(LastOf(MaybeChunks(SubSeq(tr, 1, FirstStart(tr))), pre_buffer_size))
SpeechChunks(tr) ==
    Cardinality({i \in FirstStart(tr)..Len(tr) : tr[i] > speech_continue_threshold})
TrailingChunks(tr) ==
    Cardinality({i \in FirstStart(tr)..Len(tr) : tr[i] <= speech_continue_threshold})

\* the trailing chunks the trim leaves: all of them in a segment of fewer
\* than 20 chunks, else those before index (last speech index + 10)
TrailingKept(tr) ==
    IF PreBufferAtStart(tr) + SpeechChunks(tr) + TrailingChunks(tr) < TrimMinFrames
    THEN TrailingChunks(tr)
    ELSE Min(TrailingChunks(tr), TrimKeep - 1)

C15_SameCount ==
    (rpc = "done" /\ rpcB = "done")
       => /\ rec.result.kind = recB.result.kind
          /\ Len(rec.result.frames) = Len(recB.result.frames)

\* the place of the last chunk above 0.6 in a segment, 0 when there is none
LastSpeech(fs) ==
    LET speech == {i \in 1..Len(fs) : fs[i].prob > MaybeSpeech}
    IN IF speech = {} THEN 0 ELSE CHOOSE i \in speech : \A j \in speech : j <= i

\* C16: the trim returns the chunks up to the last chunk above 0.6 and the
\* 10 chunks after it, or all the chunks after it when fewer than 10
\* follow: a non-empty prefix of the untrimmed segment.
C16_KeepsTenMore ==
    (vad_model /\ rpc = "done" /\ rec.result.kind = "frames")
       => LET kept == rec.result.frames
          IN /\ kept # <<>>
             /\ Len(kept) <= Len(rec.frames)
             /\ kept = SubSeq(rec.frames, 1, Len(kept))
             /\ Len(kept) = Min(LastSpeech(rec.frames) + 10, Len(rec.frames))

\* a step of record_with_amplitude that reads a chunk
AmpReads == ~vad_model /\ rpc = "amp_loop" /\ rec'.n = rec.n + 1

\* the number of the first silent chunk of a run at which the run has lasted
\* longer than duration seconds
FirstOver(duration) == (duration * sample_rate) \div chunk_size + 1

\* C17: once record_with_amplitude has started recording, every chunk read
\* is appended, loud or silent; the silent run is 0 after a loud chunk and
\* one longer after a silent one; and the loop is left at a chunk exactly
\* when that chunk is the first of its silent run at which the run has
\* lasted longer than silence_duration: the 32nd at 1024 samples, 16000 Hz
\* and 2 s.
C17_FinalizedAfterSilence ==
    [][AmpReads =>
          /\ rec.recording_started
                => /\ rec'.frames = Append(rec.frames, rec'.n)
                   /\ rec'.recording_started
          /\ rec'.recording_started => rec'.silent_chunks = quietRun'
          /\ (rpc' = "amp_ret")
                <=> (rec.recording_started /\ quietRun' = FirstOver(rec.silence_duration))
          /\ (rpc' = "amp_ret" /\ rec.silence_duration = 2) => quietRun' = 32
      ]_vars

\* C17 witness: with 2 s of silence_duration the loop was left at the 32nd
\* silent chunk of a run that began after a loud chunk had reset an earlier
\* silent run.
C17_Witness ==
    /\ ~vad_model
    /\ rpc = "amp_ret"
    /\ rec.silence_duration = 2
    /\ rec.silent_chunks = 32
    /\ Len(rec.frames) > 2 + 32
    /\ rec.frames[Len(rec.frames)] = rec.n

\* C18: a segment finalized by record_with_amplitude with more than 20
\* chunks is returned without its last 10 chunks and a shorter one as it
\* is, so a returned segment is never empty.
C18_TailTrim ==
    (~vad_model /\ rpc = "done" /\ rec.frames # <<>>)
       => /\ rec.result.kind = "frames"
          /\ rec.result.frames # <<>>
          /\ IF Len(rec.frames) > 20
             THEN rec.result.frames = SubSeq(rec.frames, 1, Len(rec.frames) - 10)
             ELSE rec.result.frames = rec.frames

\* C18 witness: a segment of no more than 20 chunks was returned as it was.
C18_Witness ==
    /\ ~vad_model
    /\ rpc = "done"
    /\ rec.brk
    /\ Len(rec.frames) > 10
    /\ Len(rec.frames) <= 20
    /\ rec.result = Frames(rec.frames)

\* C19: once every watcher thread has ended, the terminal is in the mode it
\* had before the first watcher started.
C19_TerminalRestored ==
    (\A i \in 1..Len(ws) : ws[i].pc \in Done) => tty = "cooked"

\* C20: while a speak or send_to_claude call is in progress, no
\* _listen_for_cancel or monitor_voice thread started for an earlier call is
\* still running.
C20_WatchersEndWithOperation ==
    mpc \notin {"op_idle", "listening"}
       => \A i \in 1..Len(ws) :
             (ws[i].kind \in {"key", "voice"} /\ ws[i].op < ops) => ws[i].pc \in Done

\* C21: at no moment are two input streams open on the audio device: the
\* recording of the main thread's listen or wake-word detection and the
\* recording of a voice watcher never overlap, nor do two watchers'.
C21_OneRecordingAtATime == streams <= 1

\* the check_esc threads of the speak call in progress that are still
\* watching the keyboard
EscWatching ==
    {i \in 1..Len(ws) : /\ ws[i].kind = "esc"
                        /\ ws[i].op = ops
                        /\ ws[i].pc \in {"e_save", "e_raw", "e_poll", "e_fallback"}}

\* C22: whenever the engine is speaking inside a speak call, the ESC
\* watcher of that call is still watching, so an ESC typed at that moment
\* stops the engine.
C22_EscWatchedWhileSpeaking ==
    (mpc = "sp_play" /\ is_speaking) => EscWatching # {}

\* C23: of two segments of one speak call that the playback worker has
\* played, the one generated earlier was played earlier, and no segment was
\* played twice.
C23_PlayedInOrder ==
    \A i, j \in 1..Len(coqui.played) :
       (i < j /\ coqui.played[i].call = coqui.played[j].call)
          => coqui.played[i].idx < coqui.played[j].idx

\* C23 witness: in the second speak call three segments have been played,
\* one after the other.
C23_Witness ==
    /\ Len(coqui.played) >= 3
    /\ LET n == Len(coqui.played)
       IN /\ coqui.played[n - 2].call = 1
          /\ coqui.played[n - 1] = Segment(2, 1)
          /\ coqui.played[n] = Segment(2, 2)


C25_ThresholdAndRepeat ==
    /\ ((cal.pc = "done" /\ cal.op = "calibrate")
          \/ (cal.pc = "idle" /\ cal.op = "load" /\ cal.noise_floor # NoFloor))
         => cal.silence_threshold >= 3 * cal.noise_floor
    /\ (cal.pc = "done" /\ cal.op = "calibrate"
          /\ cal.ref.amplitudes = cal.last.amplitudes)
         => cal.ref = cal.last

C25_Witness ==
    /\ cal.pc = "done"
    /\ cal.op = "calibrate"
    /\ cal.ref = cal.last
    /\ cal.before # <<NoFloor, silence_threshold>>
    /\ cal.before[2] > cal.silence_threshold
    /\ cal.noise_floor > 0

\* C26: a failure to open the audio input device does not reach the caller
\* as an exception: the calibration or the recording that could not open
\* the device ends by returning, with noise_floor and silence_threshold as
\* they were before.
C26_OpenFailureNotFatal ==
    (cal.op \in {"calibrate", "record"} /\ ~cal.opened /\ cal.pc # "idle")
       => /\ cal.pc = "done"
          /\ <<cal.noise_floor, cal.silence_threshold>> = cal.before

\* C30: once an operation that opened an input stream (calibration or
\* recording) has ended, by returning or by an exception, no input stream is
\* open.
C30_StreamClosedAtExit ==
    (cal.op \in {"calibrate", "record"} /\ cal.pc \in {"done", "raised"})
       => streams = 0

HasErrorPrefix(t) == Len(t) >= 6 /\ SubSeq(t, 1, 6) = "Error:"

\* C27: when the external process ends with a non-zero status, send_query
\* returns a text that starts with "Error:"; the text reaches the caller of
\* send_to_claude unchanged, and the mode loop speaks it and goes on to its
\* next turn (single-question mode speaks it and ends).
C27_FailureIsSpokenText ==
    [][/\ (pc = "sq_wait" /\ pc' = "sq_finally" /\ procState = "exited"
             /\ procOut.kind = "fail")
          => HasErrorPrefix(response')
       /\ (pc \in {"sq_finally", "stc_clear", "stc_stop"}) => response' = response
       /\ (pc = "stc_done" /\ pc' # pc /\ mode # "call" /\ HasErrorPrefix(response))
          => /\ pc' = CASE loop = "wake" -> "ww_listen"
                        [] loop = "conv" -> "cv_top"
                        [] OTHER -> "done"
             /\ mode = "ask" => askReplies' = askReplies + 1]_vars

C27_Witness ==
    /\ pc = "stc_done"
    /\ loop = "conv"
    /\ response = "Error: boom"

\* C28: when the process ends successfully with an output that is no JSON
\* object with a result field, send_query returns the whole output (apart
\* from surrounding white space) and the stored session id is unchanged.
C28_FallbackToRawOutput ==
    [][(pc = "sq_wait" /\ pc' = "sq_finally" /\ procState = "exited"
          /\ procOut.kind \in {"raw", "json_list", "json_nores"})
         => /\ response' = Strip(procOut.result)
            /\ sessionFile' = sessionFile]_vars

\* C29: a send_to_claude call during which a watcher called cancel() while
\* the process was running does not return what a process that ended on its
\* own, successfully or not, makes it return.
C29_CancelledResultDistinct ==
    (pc = "stc_done" /\ cancelDuringWait)
       => \A out \in Outputs : response # ReplyOf(out)

\* C31: a load_profile call that did not end on an existing profile has
\* returned none and has left the active profile, the reset flag and the
\* saved last-profile state as they were.
C31_NoMatchNoEffect ==
    (lastCall.op = "load" /\ lastCall.result \notin list_profiles(dirs, claudeMd))
       => /\ lastCall.result = NoProfile
          /\ PmBefore = lastCall.before

\* C32: after reset_context() the reset flag is set and no profile is
\* active.
C32_ResetClearsProfile ==
    lastCall.op = "reset" => (reset_context_mode /\ current_profile = NoProfile)

\* C39: the active profile is none or a profile that list_profiles()
\* reports.
C39_CurrentIsListed ==
    current_profile = NoProfile \/ current_profile \in list_profiles(dirs, claudeMd)

\* C33: conversation mode goes on to listen only while at most 120 seconds
\* have passed since the last listen that gave text (or since the entry);
\* when it ends without a goodbye, more than 120 seconds have passed since
\* then and the timeout was announced. A listen without text does not move
\* the start of the 120 seconds and does not end the mode.
C33_ConversationClock ==
    lastCall.op = "conversation_mode"
       => /\ lastCall.pc = "listen"
                => lastCall.now - lastCall.heardAt <= 120
          /\ (lastCall.pc = "ended" /\ lastCall.spoken # "Goodbye! Have a great day!")
                => /\ lastCall.now - lastCall.heardAt > 120
                   /\ lastCall.spoken = "Conversation timed out. Returning to wake mode."
          /\ (lastCall.pc = "top" /\ lastCall.text = NoText)
                => lastCall.last_activity_time = lastCall.heardAt

C33_Witness ==
    /\ lastCall.op = "conversation_mode"
    /\ lastCall.pc = "ended"
    /\ lastCall.spoken = "Conversation timed out. Returning to wake mode."
    /\ lastCall.heardAt > 0
    /\ lastCall.quietSince

\* C34: _is_goodbye_command is true exactly for the texts that are one of
\* the eight goodbye phrases in any letter case, with white space around
\* them and punctuation after them; a phrase with one more letter does not
\* match.
C34_GoodbyeExactly ==
    (lastCall.op = "_is_goodbye_command" /\ lastCall.result # "none")
       => (lastCall.result = "True" <=> lastCall.phrase)

C34_Witness ==
    /\ lastCall.op = "_is_goodbye_command"
    /\ lastCall.text = "GOODBYE!"
    /\ lastCall.result = "True"

IsDigits(t) ==
    /\ \E i \in 1..Len(t) : InChars(CharAt(t, i), DigitChars)
    /\ \A i \in 1..Len(t) : InChars(CharAt(t, i), DigitChars) \/ CharAt(t, i) \in {" ", ","}

OnlyPunctuation(t) ==
    /\ t # ""
    /\ \A i \in 1..Len(t) : ~IsWordChar(CharAt(t, i)) /\ ~IsSpace(CharAt(t, i))
                             /\ CharAt(t, i) \notin NonAsciiChars

\* C35: transcribe returns none when the recording is shorter than half a
\* second or the text is empty, one character or only punctuation, and the
\* text otherwise; a text of digits, spaces and commas is returned whenever
\* the recording is long enough.
C35_PostFilter ==
    (lastCall.op = "transcribe" /\ lastCall.returned)
       => LET said == Strip(lastCall.heard)
              short == 2 * lastCall.n * chunk_size < sample_rate
          IN lastCall.result =
                IF short THEN NoText
                ELSE IF IsDigits(said) THEN said
                ELSE IF Len(said) <= 1 \/ OnlyPunctuation(said) THEN NoText
                ELSE said

\* C36: the segment record_with_vad returns is a selection of the chunks
\* read, in the order read, with every chunk at most once: the chunk that
\* confirms the start is not there twice.
C36_EachChunkOnce ==
    (vad_model /\ rpc = "done" /\ rec.result.kind = "frames")
       => LET seg == rec.result.frames
          IN /\ \A i \in 1..Len(seg) :
                   seg[i].n \in 1..Len(trace) /\ seg[i].prob = trace[seg[i].n]
             /\ \A i, j \in 1..Len(seg) : i < j => seg[i].n < seg[j].n

\* C37: once stop() has been called during a speak call, no segment begins
\* playback within that call, and the call returns False.
C37_NothingPlaysAfterStop ==
    [][/\ (coqui.stopped /\ coqui.pc # "idle" /\ Len(coqui'.played) > Len(coqui.played))
             => coqui.item.call # coqui.call
       /\ (coqui.stopped /\ coqui.pc = "join" /\ coqui'.pc = "idle")
             => coqui'.ret = "False"
      ]_vars

\* C38: once speak has put the end signal and waits for the playback
\* thread, the thread consumes the signal and ends, so that the wait is over
\* before the 30 seconds have passed.
C38_EndSignalConsumed ==
    (coqui.pc = "join") ~> (coqui.pc = "join" /\ coqui.wpc = "none")

\* a step of send_query in a dispatch that is no reset and fails: the steps
\* up to the start of the process, the start that fails, and the handling of
\* a process that ended with a non-zero return code
FailingDispatchStep ==
    /\ ~reset_context_mode
    /\ \/ pc = "sq_prepare" /\ pc' = "sq_popen"
       \/ pc = "sq_popen" /\ pc' \in {"sq_wait", "sq_finally"}
       \/ /\ pc = "sq_wait"
          /\ pc' = "sq_finally"
          /\ procState = "terminated" \/ procOut.kind = "fail"

\* C40: a dispatch that is no reset and fails, by a non-zero return code or
\* by a process that cannot be started, leaves every stored continuation id
\* as it was: the one of the active storage path and those of all others.
C40_FailureKeepsIds ==
    [][FailingDispatchStep => sessionFile' = sessionFile]_vars

\* C40 witness: a dispatch that resumed the id stored for its path has ended
\* with a non-zero return code; that id and the id of another path are
\* stored.
C40_Witness ==
    /\ pc = "sq_finally"
    /\ ~reset_context_mode
    /\ response = "Error: boom"
    /\ HasResume(cmd)
    /\ cmd.cwd \in DOMAIN sessionFile
    /\ ResumeOf(cmd) = Strip(sessionFile[cmd.cwd])
    /\ \E other \in DOMAIN sessionFile : other # cmd.cwd

====
